---- MODULE Spec2Model ----
(***************************************************************************)
(* The two stateful subsystems of the account service:                     *)
(*   - MemoryManager (src/common/memory.rs): an in-memory cache guarded by *)
(*     two tokio RwLocks (the map and the statistics record), with manual  *)
(*     and background garbage collection;                                  *)
(*   - PhotoService (src/services/photo_service.rs): photo upload, fetch,  *)
(*     verification and deletion across MongoDB (content) and PostgreSQL   *)
(*     (metadata rows).                                                    *)
(* Together with the process-wide handle on the manager (MEMORY_MANAGER,   *)
(* same file) and the xor functions of src/utils/encryption.rs.            *)
(* The subsystems share no state; each has its own specifications.         *)
(***************************************************************************)
EXTENDS Integers, Sequences, FiniteSets, TLC

VARIABLES
    \* ---- MemoryManager ----
    config,        \* GcConfig of the manager
    cache,         \* HashMap<String, (Vec<u8>, Instant)>: a function on the present keys
    stats,         \* MemoryStats
    cache_lock,    \* write holder of the map's RwLock, or "none"
    stats_lock,    \* write holder of the statistics RwLock, or "none"
    cpc,           \* position of every cache caller and of the background task
    ccall,         \* the call each caller is running (or ran last)
    clocal,        \* locals of the running call
    cret,          \* value the last call returned
    cops,          \* number of foreground calls still allowed
    hist,          \* history: the puts completed back to back, one caller at a time
    solo,          \* history: the caller that has run alone since its call began
                   \* ("off": no history is kept)
    \* ---- the process-wide handle ----
    MEMORY_MANAGER, \* the OnceCell: its value and the permit of its semaphore
    made,          \* history: managers constructed, tasks spawned, and what the
                   \* last accessor call of each caller found in the cell
    \* ---- PhotoService and its two stores ----
    photos,        \* MongoDB collection "photos": a function from ObjectId to document
    user_photos,   \* PostgreSQL table user_photos: a set of rows
    next_oid,      \* the next ObjectId the driver generates
    next_uuid,     \* the next row id the table generates
    ppc,           \* position of every photo caller
    pcall,         \* the call each caller is running (or ran last)
    plocal,        \* locals of the running call
    pret,          \* what the last call returned
    pops,          \* number of calls still allowed
    uploads,       \* the uploads the callers try: "all", "core" or "pair"
    faults,        \* history: "some" once a store call has failed, "none" before
                   \* ("off": no history is kept)
    \* ---- utils::encryption ----
    xor_io,        \* the arguments and results of xor_encrypt and xor_decrypt
    \* ---- clock ----
    now

\* What the actions of the cache and of the handle leave as it is.
pvars == <<photos, user_photos, next_oid, next_uuid, ppc, pcall, plocal, pret, pops,
           uploads, faults, xor_io>>

gvars == <<MEMORY_MANAGER, made>>

\* What the actions of the photo service leave as it is.
cvars == <<config, cache, stats, cache_lock, stats_lock, cpc, ccall, clocal, cret,
           cops, hist, solo, MEMORY_MANAGER, made, xor_io>>

----------------------------------------------------------------------------
(* Bounds of the model *)
MaxSoloOps == 3
MaxDuoOps == 2
MaxGcRuns == 2
MaxTicks == 2
MaxPhotoOps == 3
MaxPhotoDuoOps == 2
MaxUploadOps == 1
MaxPhotoTicks == 1
MaxRaceOps == 3
MaxSegments == 4
MaxLocatorOps == 1
MaxOnceOps == 3
MaxLockOps == 3
MaxDataLen == 3
MaxKeyLen == 2

(* Program constants *)
MiB == 1024 * 1024
EXPIRY_SECS == 3600
DEFAULT_FORCE_GC_THRESHOLD_MB == 256
DEFAULT_MAX_MEMORY_MB == 512
DEFAULT_GC_INTERVAL_SECONDS == 300

CProcs == {"c1", "c2"}
Bg == "bg"
Keys == {"k1", "k2"}

\* A payload is a byte vector; the model keeps its identity and its length.
Payloads == { [tag |-> "A", len |-> 1],
              [tag |-> "C", len |-> 300 * MiB] }

\* Option<T>
None == <<>>
Some(x) == <<x>>

GcConfigDefault ==
    [ max_memory_mb |-> DEFAULT_MAX_MEMORY_MB,
      gc_interval_seconds |-> DEFAULT_GC_INTERVAL_SECONDS,
      force_gc_threshold_mb |-> DEFAULT_FORCE_GC_THRESHOLD_MB,
      enable_auto_gc |-> TRUE ]

Configs == { GcConfigDefault, [GcConfigDefault EXCEPT !.enable_auto_gc = FALSE] }

\* And a configuration whose threshold is the size of the large payload.
AutoGcConfigs == Configs \cup { [GcConfigDefault EXCEPT !.force_gc_threshold_mb = 300] }

----------------------------------------------------------------------------
(* Helpers on the map and on usize *)

RECURSIVE SumLen(_, _)
SumLen(m, ks) ==
    IF ks = {} THEN 0
    ELSE LET k == CHOOSE x \in ks : TRUE
         IN  m[k].data.len + SumLen(m, ks \ {k})

\* Sum of the payload sizes of the entries of a map.
CacheBytes(m) == SumLen(m, DOMAIN m)

\* usize::saturating_sub
PlainSub(a, b) == a - b
SaturatingSub(a, b) == IF a >= b THEN a - b ELSE 0

\* HashMap::insert
MapInsert(m, k, e) == [x \in (DOMAIN m) \cup {k} |-> IF x = k THEN e ELSE m[x]]

\* HashMap::remove of a set of keys
MapRemove(m, ks) == [x \in (DOMAIN m) \ ks |-> m[x]]

EmptyMap == [x \in {} |-> None]

Idle(p) == cpc[p] = "idle"
BgQuiet == cpc[Bg] \in {"off", "bg_wait"}
OthersQuiet(p) == BgQuiet /\ \A q \in CProcs \ {p} : cpc[q] \in {"idle", "absent"}

NoCall == [op |-> "none", key |-> "k1", data |-> [tag |-> "A", len |-> 1], before |-> 0]
NoLocal == [start_time |-> 0, freed_bytes |-> 0, removed |-> 0, manager |-> 0]

\* What an accessor call found in the cell; no accessor call yet.
NoAccess == [op |-> "none", found |-> FALSE]

----------------------------------------------------------------------------
(* MemoryManager::new and init_memory_manager *)

InitCache(callers, budget, configs, history) ==
    /\ config \in configs
    /\ cache = EmptyMap
    /\ stats = [ allocated_bytes |-> 0, peak_allocated_bytes |-> 0,
                 gc_runs |-> 0, last_gc_time |-> None ]
    /\ cache_lock = "none"
    /\ stats_lock = "none"
    /\ cpc = [p \in CProcs \cup {Bg} |->
                IF p = Bg THEN (IF config.enable_auto_gc THEN "bg_wait" ELSE "off")
                ELSE IF p \in callers THEN "idle" ELSE "absent"]
    /\ ccall = [p \in CProcs |-> NoCall]
    /\ clocal = [p \in CProcs \cup {Bg} |-> NoLocal]
    /\ cret = [p \in CProcs |-> [tag |-> "none"]]
    /\ cops = budget
    /\ hist = <<>>
    /\ solo = IF history THEN "none" ELSE "off"
    /\ MEMORY_MANAGER = [value |-> Some(1), permit |-> "closed"]
    /\ made = [managers |-> 1, tasks |-> IF config.enable_auto_gc THEN 1 ELSE 0,
               calls |-> [p \in CProcs |-> NoAccess]]

\* A foreground call begins: the caller records its arguments.
\* The callers are interchangeable: "c2" makes its first call after "c1" made one.
BeginCall(p, op, k, d, first) ==
    /\ Idle(p)
    /\ p = "c2" => (cpc["c1"] # "idle" \/ cret["c1"].tag # "none")
    /\ cops > 0
    /\ cops' = cops - 1
    /\ cpc' = [cpc EXCEPT ![p] = first]
    /\ ccall' = [ccall EXCEPT ![p] =
                    [op |-> op, key |-> k, data |-> d,
                     before |-> IF op = "cache_data" /\ solo # "off"
                                THEN stats.allocated_bytes ELSE 0]]
    /\ clocal' = [clocal EXCEPT ![p] =
                    [NoLocal EXCEPT !.start_time = IF op = "force_gc" THEN now ELSE 0]]
    /\ cret' = [cret EXCEPT ![p] = [tag |-> "none"]]
    /\ solo' = IF solo = "off" THEN "off" ELSE IF OthersQuiet(p) THEN p ELSE "none"
    /\ hist' = IF OthersQuiet(p) /\ op = "cache_data" /\ hist # <<>>
               THEN <<hist[Len(hist)]>> ELSE <<>>
    /\ UNCHANGED <<config, cache, stats, cache_lock, stats_lock, now, pvars, gvars>>

\* A foreground call returns.
Return(p, r) ==
    /\ cpc' = [cpc EXCEPT ![p] = "idle"]
    /\ cret' = [cret EXCEPT ![p] = r]
    /\ ccall' = [ccall EXCEPT ![p] = NoCall]
    /\ clocal' = [clocal EXCEPT ![p] = NoLocal]

----------------------------------------------------------------------------
(* cache_data(key, data) *)

CallCacheData(p, k, d) == BeginCall(p, "cache_data", k, d, "cd_insert")

\* lines 98-101: the map's write lock is taken, the entry inserted, the lock dropped
CacheDataInsert(p) ==
    /\ cpc[p] = "cd_insert"
    /\ cache_lock = "none"
    /\ cache' = MapInsert(cache, ccall[p].key, [data |-> ccall[p].data, ts |-> now])
    /\ cpc' = [cpc EXCEPT ![p] = "cd_stats_lock"]
    /\ UNCHANGED <<config, stats, cache_lock, stats_lock, ccall, clocal, cret, cops,
                   hist, solo, now, pvars, gvars>>

\* line 103: the statistics write lock is taken
CacheDataStatsLock(p) ==
    /\ cpc[p] = "cd_stats_lock"
    /\ stats_lock = "none"
    /\ stats_lock' = p
    /\ cpc' = [cpc EXCEPT ![p] = "cd_stats"]
    /\ UNCHANGED <<config, cache, stats, cache_lock, ccall, clocal, cret, cops,
                   hist, solo, now, pvars, gvars>>

\* lines 104-107: the statistics after a put of data_size bytes
PutStatsKeepsPeak(s, data_size) ==
    [s EXCEPT !.allocated_bytes = s.allocated_bytes + data_size]
PutStats(s, data_size) ==
    LET a == s.allocated_bytes + data_size
    IN  [s EXCEPT !.allocated_bytes = a,
                  !.peak_allocated_bytes =
                      IF a > s.peak_allocated_bytes THEN a ELSE s.peak_allocated_bytes]

\* lines 104-111: the statistics are updated and the lock dropped; the debug line
\* reads the total back (a read lock, nothing is written) and the call returns
CacheDataStats(p) ==
    /\ cpc[p] = "cd_stats"
    /\ stats_lock = p
    /\ stats' = PutStats(stats, ccall[p].data.len)
    /\ stats_lock' = "none"
    /\ Return(p, [tag |-> "unit"])
    /\ hist' = IF solo = p
               THEN Append(hist, [key |-> ccall[p].key, size |-> ccall[p].data.len,
                                  before |-> ccall[p].before])
               ELSE <<>>
    /\ UNCHANGED <<config, cache, cache_lock, cops, solo, now, pvars, gvars>>

----------------------------------------------------------------------------
(* get_cached_data(key) *)

CallGetCachedData(p, k) == BeginCall(p, "get_cached_data", k, ccall[p].data, "get")

\* lines 114-115: read lock on the map, clone of the payload
GetCachedDataTouch(p) ==
    /\ cpc[p] = "get"
    /\ cache_lock = "none"
    /\ cache' = IF ccall[p].key \in DOMAIN cache
                THEN [cache EXCEPT ![ccall[p].key].ts = now]
                ELSE cache
    /\ Return(p, IF ccall[p].key \in DOMAIN cache
                 THEN [tag |-> "some", val |-> cache[ccall[p].key].data]
                 ELSE [tag |-> "nothing"])
    /\ UNCHANGED <<config, stats, cache_lock, stats_lock, cops, hist, solo, now, pvars, gvars>>
GetCachedData(p) ==
    /\ cpc[p] = "get"
    /\ cache_lock = "none"
    /\ Return(p, IF ccall[p].key \in DOMAIN cache
                 THEN [tag |-> "some", val |-> cache[ccall[p].key].data]
                 ELSE [tag |-> "nothing"])
    /\ UNCHANGED <<config, cache, stats, cache_lock, stats_lock, cops, hist, solo, now, pvars, gvars>>

----------------------------------------------------------------------------
(* remove_cached_data(key) *)

CallRemoveCachedData(p, k) == BeginCall(p, "remove_cached_data", k, ccall[p].data, "rm_cache")

\* lines 118-119 and 123-124: write lock on the map, the entry removed; the lock is
\* kept when an entry was removed, dropped with the return otherwise
RemoveCachedDataMap(p) ==
    /\ cpc[p] = "rm_cache"
    /\ cache_lock = "none"
    /\ IF ccall[p].key \in DOMAIN cache
       THEN /\ cache' = MapRemove(cache, {ccall[p].key})
            /\ cache_lock' = p
            /\ clocal' = [clocal EXCEPT ![p].removed = cache[ccall[p].key].data.len]
            /\ cpc' = [cpc EXCEPT ![p] = "rm_stats"]
            /\ UNCHANGED <<cret, ccall>>
       ELSE /\ Return(p, [tag |-> "bool", val |-> FALSE])
            /\ UNCHANGED <<cache, cache_lock>>
    /\ UNCHANGED <<config, stats, stats_lock, cops, hist, solo, now, pvars, gvars>>

\* lines 120-122: statistics write lock (the map lock still held), the subtraction,
\* both locks dropped
RemoveCachedDataStats(p) ==
    /\ cpc[p] = "rm_stats"
    /\ cache_lock = p
    /\ stats_lock = "none"
    /\ stats' = [stats EXCEPT !.allocated_bytes =
                     SaturatingSub(stats.allocated_bytes, clocal[p].removed)]
    /\ cache_lock' = "none"
    /\ Return(p, [tag |-> "bool", val |-> TRUE])
    /\ UNCHANGED <<config, cache, stats_lock, cops, hist, solo, now, pvars, gvars>>

----------------------------------------------------------------------------
(* clear_cache() *)

CallClearCache(p) == BeginCall(p, "clear_cache", ccall[p].key, ccall[p].data, "cl_cache")

\* lines 131-132
ClearCacheMapStatsFirst(p) ==
    /\ cpc[p] = "cl_cache"
    /\ stats_lock = "none"
    /\ stats_lock' = p
    /\ cpc' = [cpc EXCEPT ![p] = "cl_stats"]
    /\ UNCHANGED <<config, cache, stats, cache_lock, ccall, clocal, cret, cops, hist, solo,
                   now, pvars, gvars>>
ClearCacheMap(p) ==
    /\ cpc[p] = "cl_cache"
    /\ cache_lock = "none"
    /\ cache' = EmptyMap
    /\ cache_lock' = p
    /\ cpc' = [cpc EXCEPT ![p] = "cl_stats"]
    /\ UNCHANGED <<config, stats, stats_lock, ccall, clocal, cret, cops, hist, solo, now, pvars, gvars>>

\* lines 134-138
ClearCacheStatsResetsPeak(p) ==
    /\ cpc[p] = "cl_stats"
    /\ cache_lock = p
    /\ stats_lock = "none"
    /\ stats' = [stats EXCEPT !.allocated_bytes = 0, !.peak_allocated_bytes = 0]
    /\ cache_lock' = "none"
    /\ Return(p, [tag |-> "unit"])
    /\ UNCHANGED <<config, cache, stats_lock, cops, hist, solo, now, pvars, gvars>>
ClearCacheStats(p) ==
    /\ cpc[p] = "cl_stats"
    /\ cache_lock = p
    /\ stats_lock = "none"
    /\ stats' = [stats EXCEPT !.allocated_bytes = 0]
    /\ cache_lock' = "none"
    /\ Return(p, [tag |-> "unit"])
    /\ UNCHANGED <<config, cache, stats_lock, cops, hist, solo, now, pvars, gvars>>

----------------------------------------------------------------------------
(* get_stats() *)

CallGetStats(p) == BeginCall(p, "get_stats", ccall[p].key, ccall[p].data, "stats_read")

\* line 128
GetStats(p) ==
    /\ cpc[p] = "stats_read"
    /\ stats_lock = "none"
    /\ Return(p, IF ccall[p].op = "get_memory_stats"
                 THEN [tag |-> "some", val |-> stats]
                 ELSE [tag |-> "stats", val |-> stats])
    /\ UNCHANGED <<config, cache, stats, cache_lock, stats_lock, cops, hist, solo, now, pvars, gvars>>

----------------------------------------------------------------------------
(* run_gc_internal, entered from force_gc and from the background task *)

\* line 92-95: start_time is read as the pass begins
CallForceGc(p) ==
    /\ stats.gc_runs + Cardinality({q \in CProcs \cup {Bg} :
                                      cpc[q] \in {"gc_sweep", "gc_stats_lock", "gc_stats"}})
          < MaxGcRuns
    /\ BeginCall(p, "force_gc", ccall[p].key, ccall[p].data, "gc_sweep")

\* lines 149-153: the keys whose timestamp is before the expiry threshold
KeysToRemove(m, start_time) ==
    {k \in DOMAIN m : m[k].ts < start_time - EXPIRY_SECS}

\* lines 146-160: write lock on the map, the expired entries removed and summed
GcSweep(p) ==
    /\ cpc[p] = "gc_sweep"
    /\ cache_lock = "none"
    /\ LET gone == KeysToRemove(cache, clocal[p].start_time)
       IN  /\ cache' = MapRemove(cache, gone)
           /\ clocal' = [clocal EXCEPT ![p].freed_bytes = SumLen(cache, gone),
                                       ![p].removed = Cardinality(gone)]
    /\ cpc' = [cpc EXCEPT ![p] = "gc_stats_lock"]
    /\ UNCHANGED <<config, stats, cache_lock, stats_lock, ccall, cret, cops, hist, solo, now, pvars, gvars>>

\* line 162
GcStatsLock(p) ==
    /\ cpc[p] = "gc_stats_lock"
    /\ stats_lock = "none"
    /\ stats_lock' = p
    /\ cpc' = [cpc EXCEPT ![p] = "gc_stats"]
    /\ UNCHANGED <<config, cache, stats, cache_lock, ccall, clocal, cret, cops, hist, solo, now, pvars, gvars>>

\* lines 163-166, then the return to force_gc's caller or to the background loop
GcStatsWhenFreed(p) ==
    /\ cpc[p] = "gc_stats"
    /\ stats_lock = p
    /\ stats' = IF clocal[p].freed_bytes = 0 THEN stats
                ELSE [stats EXCEPT
                        !.allocated_bytes = SaturatingSub(stats.allocated_bytes,
                                                          clocal[p].freed_bytes),
                        !.gc_runs = stats.gc_runs + 1,
                        !.last_gc_time = Some(clocal[p].start_time)]
    /\ stats_lock' = "none"
    /\ IF p = Bg
       THEN /\ cpc' = [cpc EXCEPT ![p] = "bg_wait"]
            /\ clocal' = [clocal EXCEPT ![p] = NoLocal]
            /\ UNCHANGED <<cret, ccall>>
       ELSE Return(p, [tag |-> "unit"])
    /\ UNCHANGED <<config, cache, cache_lock, cops, hist, solo, now, pvars, gvars>>
GcStats(p) ==
    /\ cpc[p] = "gc_stats"
    /\ stats_lock = p
    /\ stats' = [stats EXCEPT
                   !.allocated_bytes = SaturatingSub(stats.allocated_bytes,
                                                     clocal[p].freed_bytes),
                   !.gc_runs = stats.gc_runs + 1,
                   !.last_gc_time = Some(clocal[p].start_time)]
    /\ stats_lock' = "none"
    /\ IF p = Bg
       THEN /\ cpc' = [cpc EXCEPT ![p] = "bg_wait"]
            /\ clocal' = [clocal EXCEPT ![p] = NoLocal]
            /\ UNCHANGED <<cret, ccall>>
       ELSE Return(p, [tag |-> "unit"])
    /\ UNCHANGED <<config, cache, cache_lock, cops, hist, solo, now, pvars, gvars>>

\* start_auto_gc, lines 72-89: one wake of the periodic task
AutoGcTickAtThreshold ==
    /\ cpc[Bg] = "bg_wait"
    /\ stats_lock = "none"
    /\ IF stats.allocated_bytes >= config.force_gc_threshold_mb * 1024 * 1024
       THEN /\ stats.gc_runs + Cardinality({q \in CProcs :
                    cpc[q] \in {"gc_sweep", "gc_stats_lock", "gc_stats"}}) < MaxGcRuns
            /\ cpc' = [cpc EXCEPT ![Bg] = "gc_sweep"]
            /\ clocal' = [clocal EXCEPT ![Bg] = [NoLocal EXCEPT !.start_time = now]]
            /\ hist' = <<>>
            /\ solo' = IF solo = "off" THEN "off" ELSE "none"
       ELSE UNCHANGED <<cpc, clocal, hist, solo>>
    /\ UNCHANGED <<config, cache, stats, cache_lock, stats_lock, ccall, cret, cops, now, pvars, gvars>>
AutoGcTick ==
    /\ cpc[Bg] = "bg_wait"
    /\ stats_lock = "none"
    /\ IF stats.allocated_bytes > config.force_gc_threshold_mb * 1024 * 1024
       THEN /\ stats.gc_runs + Cardinality({q \in CProcs :
                    cpc[q] \in {"gc_sweep", "gc_stats_lock", "gc_stats"}}) < MaxGcRuns
            /\ cpc' = [cpc EXCEPT ![Bg] = "gc_sweep"]
            /\ clocal' = [clocal EXCEPT ![Bg] = [NoLocal EXCEPT !.start_time = now]]
            /\ hist' = <<>>
            /\ solo' = IF solo = "off" THEN "off" ELSE "none"
       ELSE UNCHANGED <<cpc, clocal, hist, solo>>
    /\ UNCHANGED <<config, cache, stats, cache_lock, stats_lock, ccall, cret, cops, now, pvars, gvars>>

\* The clock advances. It is sampled at the instants that straddle the expiry
\* threshold: 0, 1h, 1h+1s, 2h+1s, 2h+2s, ...
TicksAt(t) == (t \div EXPIRY_SECS) + (t % EXPIRY_SECS)
NextInstant(t) ==
    IF t \div EXPIRY_SECS = t % EXPIRY_SECS THEN t + EXPIRY_SECS ELSE t + 1

Tick ==
    /\ TicksAt(now) < MaxTicks
    /\ now' = NextInstant(now)
    /\ UNCHANGED <<cvars, pvars>>

----------------------------------------------------------------------------
(***************************************************************************)
(* utils::encryption: xor_encrypt and xor_decrypt, a pure function of a    *)
(* byte slice and a key.                                                   *)
(***************************************************************************)

\* The bytes the inputs are made of
Bytes == {0, 1, 170, 255}

\* The byte sequences of length at most n
BytesUpTo(n) == UNION { [1..m -> Bytes] : m \in 0..n }

\* u8 ^ u8, bit by bit
RECURSIVE XorBits(_, _, _)
XorBits(a, b, n) ==
    IF n = 0 THEN 0
    ELSE (((a % 2) + (b % 2)) % 2) + 2 * XorBits(a \div 2, b \div 2, n - 1)
BitXor(a, b) == XorBits(a, b, 8)

\* lines 40-45: data zipped with the key repeated; an empty key repeated is
\* empty, and zip stops at the shorter of the two
xor_encrypt(data, key) ==
    IF Len(key) = 0 THEN <<>>
    ELSE [i \in 1..Len(data) |-> BitXor(data[i], key[((i - 1) % Len(key)) + 1])]

\* lines 46-48
xor_decrypt(encrypted, key) == xor_encrypt(encrypted, key)

NoXor == [pc |-> "off", data |-> <<>>, key |-> <<>>, encrypted |-> <<>>, decrypted |-> <<>>]

XorEncrypt ==
    /\ xor_io.pc = "encrypt"
    /\ xor_io' = [xor_io EXCEPT !.encrypted = xor_encrypt(xor_io.data, xor_io.key),
                                !.pc = "decrypt"]
    /\ UNCHANGED <<config, cache, stats, cache_lock, stats_lock, cpc, ccall, clocal, cret,
                   cops, hist, solo, gvars, now>>
    /\ UNCHANGED <<photos, user_photos, next_oid, next_uuid, ppc, pcall, plocal, pret,
                   pops, uploads, faults>>

XorDecrypt ==
    /\ xor_io.pc = "decrypt"
    /\ xor_io' = [xor_io EXCEPT !.decrypted = xor_decrypt(xor_io.encrypted, xor_io.key),
                                !.pc = "done"]
    /\ UNCHANGED <<config, cache, stats, cache_lock, stats_lock, cpc, ccall, clocal, cret,
                   cops, hist, solo, gvars, now>>
    /\ UNCHANGED <<photos, user_photos, next_oid, next_uuid, ppc, pcall, plocal, pret,
                   pops, uploads, faults>>

NextXor == XorEncrypt \/ XorDecrypt

----------------------------------------------------------------------------
(***************************************************************************)
(* The process-wide handle, lines 178-205.                                 *)
(* MEMORY_MANAGER is a tokio OnceCell: get() returns the value once it is  *)
(* set; get_or_init returns the value if it is set, and otherwise waits    *)
(* for the cell's one permit, runs the initializer while holding it, sets  *)
(* the value and closes the semaphore, upon which the waiting callers      *)
(* return the value.                                                       *)
(***************************************************************************)

\* Option<GcConfig>, the argument of init_memory_manager
ConfigArgs == {None} \cup {Some(c) : c \in Configs}

\* Option::unwrap_or_default
UnwrapOrDefault(c) == IF c = None THEN GcConfigDefault ELSE c[1]

Initialized == MEMORY_MANAGER.value # None

\* &'static MemoryManager
ManagerRef == [manager |-> MEMORY_MANAGER.value[1]]

\* A call through the module-level functions begins.
BeginAccess(p, op, c, first) ==
    /\ Idle(p)
    /\ p = "c2" => (cpc["c1"] # "idle" \/ cret["c1"].tag # "none")
    /\ cops > 0
    /\ cops' = cops - 1
    /\ cpc' = [cpc EXCEPT ![p] = first]
    /\ ccall' = [ccall EXCEPT ![p] =
                    [op |-> op, key |-> NoCall.key, data |-> NoCall.data, before |-> 0,
                     config |-> c]]
    /\ clocal' = [clocal EXCEPT ![p] = NoLocal]
    /\ cret' = [cret EXCEPT ![p] = [tag |-> "none"]]
    /\ made' = [made EXCEPT !.calls[p] = NoAccess]
    /\ UNCHANGED <<config, cache, stats, cache_lock, stats_lock, hist, solo,
                   MEMORY_MANAGER, now, pvars>>

\* The accessor has read the cell.
Found(p, op) == [made EXCEPT !.calls[p] = [op |-> op, found |-> Initialized]]

(* init_memory_manager(config) *)

CallInitMemoryManager(p, c) == BeginAccess(p, "init_memory_manager", c, "init_check")

\* lines 181-182, get_or_init: the value if the cell is set
InitCheck(p) ==
    /\ cpc[p] = "init_check"
    /\ IF Initialized
       THEN Return(p, [tag |-> "manager", val |-> ManagerRef])
       ELSE /\ cpc' = [cpc EXCEPT ![p] = "init_acquire"]
            /\ UNCHANGED <<ccall, clocal, cret>>
    /\ UNCHANGED <<config, cache, stats, cache_lock, stats_lock, cops, hist, solo,
                   gvars, now, pvars>>

\* get_or_init: the permit is acquired, or the semaphore was closed meanwhile
InitAcquireNoPermit(p) ==
    /\ cpc[p] = "init_acquire"
    /\ IF MEMORY_MANAGER.permit = "closed"
       THEN /\ Return(p, [tag |-> "manager", val |-> ManagerRef])
            /\ UNCHANGED MEMORY_MANAGER
       ELSE /\ MEMORY_MANAGER' = [MEMORY_MANAGER EXCEPT !.permit = p]
            /\ cpc' = [cpc EXCEPT ![p] = "init_new"]
            /\ UNCHANGED <<ccall, clocal, cret>>
    /\ UNCHANGED <<config, cache, stats, cache_lock, stats_lock, cops, hist, solo,
                   made, now, pvars>>
InitAcquire(p) ==
    /\ cpc[p] = "init_acquire"
    /\ MEMORY_MANAGER.permit \in {"free", "closed"}
    /\ IF MEMORY_MANAGER.permit = "closed"
       THEN /\ Return(p, [tag |-> "manager", val |-> ManagerRef])
            /\ UNCHANGED MEMORY_MANAGER
       ELSE /\ MEMORY_MANAGER' = [MEMORY_MANAGER EXCEPT !.permit = p]
            /\ cpc' = [cpc EXCEPT ![p] = "init_new"]
            /\ UNCHANGED <<ccall, clocal, cret>>
    /\ UNCHANGED <<config, cache, stats, cache_lock, stats_lock, cops, hist, solo,
                   made, now, pvars>>

\* line 183 and lines 47-58: MemoryManager::new(config.unwrap_or_default())
InitNew(p) ==
    /\ cpc[p] = "init_new"
    /\ config' = UnwrapOrDefault(ccall[p].config)
    /\ cache' = EmptyMap
    /\ stats' = [ allocated_bytes |-> 0, peak_allocated_bytes |-> 0,
                  gc_runs |-> 0, last_gc_time |-> None ]
    /\ made' = [made EXCEPT !.managers = made.managers + 1]
    /\ clocal' = [clocal EXCEPT ![p].manager = made.managers + 1]
    /\ cpc' = [cpc EXCEPT ![p] = "init_spawn"]
    /\ UNCHANGED <<cache_lock, stats_lock, ccall, cret, cops, hist, solo,
                   MEMORY_MANAGER, now, pvars>>

\* line 184 and lines 60-70: start_auto_gc spawns the periodic task if enabled
InitStartAutoGc(p) ==
    /\ cpc[p] = "init_spawn"
    /\ IF config.enable_auto_gc
       THEN /\ cpc' = [cpc EXCEPT ![p] = "init_set", ![Bg] = "bg_wait"]
            /\ made' = [made EXCEPT !.tasks = made.tasks + 1]
       ELSE /\ cpc' = [cpc EXCEPT ![p] = "init_set"]
            /\ UNCHANGED made
    /\ UNCHANGED <<config, cache, stats, cache_lock, stats_lock, ccall, clocal, cret,
                   cops, hist, solo, MEMORY_MANAGER, now, pvars>>

\* lines 185-187, get_or_init: the value is set, the semaphore closed
InitSetValue(p) ==
    /\ cpc[p] = "init_set"
    /\ MEMORY_MANAGER' = [value |-> Some(clocal[p].manager), permit |-> "closed"]
    /\ Return(p, [tag |-> "manager", val |-> [manager |-> clocal[p].manager]])
    /\ UNCHANGED <<config, cache, stats, cache_lock, stats_lock, cops, hist, solo,
                   made, now, pvars>>

(* get_memory_manager() *)

CallGetMemoryManager(p) == BeginAccess(p, "get_memory_manager", None, "gm_get")

\* line 190
GetMemoryManager(p) ==
    /\ cpc[p] = "gm_get"
    /\ made' = Found(p, "get_memory_manager")
    /\ Return(p, IF Initialized THEN [tag |-> "some", val |-> ManagerRef]
                 ELSE [tag |-> "nothing"])
    /\ UNCHANGED <<config, cache, stats, cache_lock, stats_lock, cops, hist, solo,
                   MEMORY_MANAGER, now, pvars>>

(* force_gc(), the module-level function *)

CallModuleForceGc(p) ==
    /\ stats.gc_runs + Cardinality({q \in CProcs \cup {Bg} :
                                      cpc[q] \in {"fg_get", "gc_sweep", "gc_stats_lock",
                                                  "gc_stats"}})
          < MaxGcRuns
    /\ BeginAccess(p, "force_gc", None, "fg_get")

\* lines 193-197: a pass of the manager if there is one, else a warning is logged
ModuleForceGc(p) ==
    /\ cpc[p] = "fg_get"
    /\ made' = Found(p, "force_gc")
    /\ IF Initialized
       THEN /\ cpc' = [cpc EXCEPT ![p] = "gc_sweep"]
            /\ clocal' = [clocal EXCEPT ![p].start_time = now]
            /\ UNCHANGED <<ccall, cret>>
       ELSE Return(p, [tag |-> "unit"])
    /\ UNCHANGED <<config, cache, stats, cache_lock, stats_lock, cops, hist, solo,
                   MEMORY_MANAGER, now, pvars>>

(* get_memory_stats() *)

CallGetMemoryStats(p) == BeginAccess(p, "get_memory_stats", None, "gs_get")

\* lines 200-204: the manager's get_stats if there is one, else None
GetMemoryStats(p) ==
    /\ cpc[p] = "gs_get"
    /\ made' = Found(p, "get_memory_stats")
    /\ IF Initialized
       THEN /\ cpc' = [cpc EXCEPT ![p] = "stats_read"]
            /\ UNCHANGED <<ccall, clocal, cret>>
       ELSE Return(p, [tag |-> "nothing"])
    /\ UNCHANGED <<config, cache, stats, cache_lock, stats_lock, cops, hist, solo,
                   MEMORY_MANAGER, now, pvars>>

\* The module-level functions, with the passes and reads they start.
NextOnce ==
    \/ \E p \in CProcs, c \in ConfigArgs : CallInitMemoryManager(p, c)
    \/ \E p \in CProcs : InitCheck(p)
    \/ \E p \in CProcs : InitAcquire(p)
    \/ \E p \in CProcs : InitNew(p)
    \/ \E p \in CProcs : InitStartAutoGc(p)
    \/ \E p \in CProcs : InitSetValue(p)
    \/ \E p \in CProcs : CallGetMemoryManager(p)
    \/ \E p \in CProcs : GetMemoryManager(p)
    \/ \E p \in CProcs : CallModuleForceGc(p)
    \/ \E p \in CProcs : ModuleForceGc(p)
    \/ \E p \in CProcs : CallGetMemoryStats(p)
    \/ \E p \in CProcs : GetMemoryStats(p)
    \/ \E p \in CProcs : GetStats(p)
    \/ \E p \in CProcs : GcSweep(p)
    \/ \E p \in CProcs : GcStatsLock(p)
    \/ \E p \in CProcs : GcStats(p)

\* The steps of a call of caller p after its first, and of a pass of the task.
StepsOf(p) ==
    IF p = Bg
    THEN GcSweep(Bg) \/ GcStatsLock(Bg) \/ GcStats(Bg)
    ELSE \/ CacheDataInsert(p) \/ CacheDataStatsLock(p) \/ CacheDataStats(p)
         \/ GetCachedData(p)
         \/ RemoveCachedDataMap(p) \/ RemoveCachedDataStats(p)
         \/ ClearCacheMap(p) \/ ClearCacheStats(p)
         \/ GetStats(p)
         \/ GcSweep(p) \/ GcStatsLock(p) \/ GcStats(p)

\* Every operation, on one key and with the payload that is above the
\* threshold of the background task.
LockKey == "k1"
LockPayload == [tag |-> "C", len |-> 300 * MiB]

NextLock ==
    \/ \E p \in CProcs : CallCacheData(p, LockKey, LockPayload)
    \/ \E p \in CProcs : CallGetCachedData(p, LockKey)
    \/ \E p \in CProcs : CallRemoveCachedData(p, LockKey)
    \/ \E p \in CProcs : CallClearCache(p)
    \/ \E p \in CProcs : CallGetStats(p)
    \/ \E p \in CProcs : CallForceGc(p)
    \/ AutoGcTick
    \/ \E p \in CProcs : CacheDataInsert(p)
    \/ \E p \in CProcs : CacheDataStatsLock(p)
    \/ \E p \in CProcs : CacheDataStats(p)
    \/ \E p \in CProcs : GetCachedData(p)
    \/ \E p \in CProcs : RemoveCachedDataMap(p)
    \/ \E p \in CProcs : RemoveCachedDataStats(p)
    \/ \E p \in CProcs : ClearCacheMap(p)
    \/ \E p \in CProcs : ClearCacheStats(p)
    \/ \E p \in CProcs : GetStats(p)
    \/ \E p \in CProcs \cup {Bg} : GcSweep(p)
    \/ \E p \in CProcs \cup {Bg} : GcStatsLock(p)
    \/ \E p \in CProcs \cup {Bg} : GcStats(p)

\* cache_data under a key that is not in the map and that no call in progress is
\* inserting: no put replaces an entry.
CallCacheDataFresh(p, k, d) ==
    /\ k \notin DOMAIN cache
    /\ \A q \in CProcs :
          ~(cpc[q] \in {"cd_insert", "cd_stats_lock", "cd_stats"} /\ ccall[q].key = k)
    /\ CallCacheData(p, k, d)

\* Puts that replace nothing, removals and passes.
NextFresh ==
    \/ \E p \in CProcs, k \in Keys, d \in Payloads : CallCacheDataFresh(p, k, d)
    \/ \E p \in CProcs : CacheDataInsert(p)
    \/ \E p \in CProcs : CacheDataStatsLock(p)
    \/ \E p \in CProcs : CacheDataStats(p)
    \/ \E p \in CProcs, k \in Keys : CallRemoveCachedData(p, k)
    \/ \E p \in CProcs : RemoveCachedDataMap(p)
    \/ \E p \in CProcs : RemoveCachedDataStats(p)
    \/ \E p \in CProcs : CallForceGc(p)
    \/ \E p \in CProcs \cup {Bg} : GcSweep(p)
    \/ \E p \in CProcs \cup {Bg} : GcStatsLock(p)
    \/ \E p \in CProcs \cup {Bg} : GcStats(p)
    \/ AutoGcTick
    \/ Tick

\* cache_data, the background task and the clock only.
NextAutoGc ==
    \/ \E p \in CProcs, k \in Keys, d \in Payloads : CallCacheData(p, k, d)
    \/ \E p \in CProcs : CacheDataInsert(p)
    \/ \E p \in CProcs : CacheDataStatsLock(p)
    \/ \E p \in CProcs : CacheDataStats(p)
    \/ GcSweep(Bg)
    \/ GcStatsLock(Bg)
    \/ GcStats(Bg)
    \/ AutoGcTick
    \/ Tick

----------------------------------------------------------------------------
(***************************************************************************)
(* PhotoService                                                            *)
(* Strings that the code takes apart or converts (file extensions, photo   *)
(* URLs, ObjectId hex strings) are sequences of one-character strings.     *)
(***************************************************************************)

PProcs == {"p1", "p2"}
Users == {"u1", "u2"}

\* line 41: the size limit of an upload
MAX_PHOTO_BYTES == 10 * 1024 * 1024

\* line 38: the photo types upload_photo accepts
ValidPhotoTypesRenamed == {"profile", "id_document", "verification"}
ValidPhotoTypes == {"profile", "emirates_id", "verification"}

\* str::to_lowercase on the letters the model uses
LowerOf(c) ==
    CASE c = "A" -> "a" [] c = "B" -> "b" [] c = "C" -> "c" [] c = "D" -> "d"
      [] c = "E" -> "e" [] c = "F" -> "f" [] c = "G" -> "g" [] c = "I" -> "i"
      [] c = "J" -> "j" [] c = "M" -> "m" [] c = "N" -> "n" [] c = "P" -> "p"
      [] c = "W" -> "w" [] OTHER -> c
ToLowercase(s) == [i \in 1..Len(s) |-> LowerOf(s[i])]

\* lines 44-50: the content type of a file extension, "" when unsupported
ContentTypeOf(file_extension) ==
    LET e == ToLowercase(file_extension)
    IN  CASE e = <<"j", "p", "g">> -> "image/jpeg"
          [] e = <<"j", "p", "e", "g">> -> "image/jpeg"
          [] e = <<"p", "n", "g">> -> "image/png"
          [] e = <<"g", "i", "f">> -> "image/gif"
          [] e = <<"w", "e", "b", "p">> -> "image/webp"
          [] OTHER -> ""

\* lines 38-50: the validation of upload_photo, the error of the first failed check
ValidateUploadOffByOne(photo_type, photo_data, file_extension) ==
    IF photo_type \notin ValidPhotoTypes THEN "Invalid photo type"
    ELSE IF photo_data.len >= MAX_PHOTO_BYTES THEN "File size too large. Maximum 10MB allowed"
    ELSE IF ContentTypeOf(file_extension) = "" THEN "Unsupported file format"
    ELSE "ok"
ValidateUpload(photo_type, photo_data, file_extension) ==
    IF photo_type \notin ValidPhotoTypes THEN "Invalid photo type"
    ELSE IF photo_data.len > MAX_PHOTO_BYTES THEN "File size too large. Maximum 10MB allowed"
    ELSE IF ContentTypeOf(file_extension) = "" THEN "Unsupported file format"
    ELSE "ok"

\* ObjectId::to_hex and ObjectId::parse_str, on ObjectIds of OidHexLen hex digits
OidHexLen == 2
HexDigits == <<"0", "1", "2", "3", "4", "5", "6", "7", "8", "9",
               "a", "b", "c", "d", "e", "f">>
UpperHexDigits == <<"0", "1", "2", "3", "4", "5", "6", "7", "8", "9",
                    "A", "B", "C", "D", "E", "F">>

RECURSIVE HexOf(_, _)
HexOf(n, width) ==
    IF width = 0 THEN <<>>
    ELSE Append(HexOf(n \div 16, width - 1), HexDigits[(n % 16) + 1])
ToHex(oid) == HexOf(oid, OidHexLen)

IsHexChar(c) == \E i \in 1..16 : c = HexDigits[i] \/ c = UpperHexDigits[i]
HexVal(c) == (CHOOSE i \in 1..16 : c = HexDigits[i] \/ c = UpperHexDigits[i]) - 1

RECURSIVE HexNum(_)
HexNum(s) ==
    IF s = <<>> THEN 0
    ELSE 16 * HexNum(SubSeq(s, 1, Len(s) - 1)) + HexVal(s[Len(s)])

\* ObjectId::parse_str: Some(oid), or None for a string that is no ObjectId
ParseStr(s) ==
    IF Len(s) = OidHexLen /\ \A i \in 1..Len(s) : IsHexChar(s[i])
    THEN Some(HexNum(s)) ELSE None

\* lines 49 and 67: format!("/api/v1/photos/{}", id.to_hex())
PhotosPrefix == <<"/", "a", "p", "i", "/", "v", "1", "/", "p", "h", "o", "t", "o", "s", "/">>
PhotoUrlBare(oid) == ToHex(oid)
PhotoUrl(oid) == PhotosPrefix \o ToHex(oid)

\* str::split('/')
RECURSIVE Split(_)
Split(s) ==
    IF \A i \in 1..Len(s) : s[i] # "/" THEN <<s>>
    ELSE LET i == CHOOSE j \in 1..Len(s) :
                      s[j] = "/" /\ \A h \in 1..(j - 1) : s[h] # "/"
         IN  <<SubSeq(s, 1, i - 1)>> \o Split(SubSeq(s, i + 1, Len(s)))

\* lines 207-214: Some(id), or None for "Invalid photo URL format"
extract_mongo_id_from_url_three(photo_url) ==
    LET parts == Split(photo_url)
    IN  IF Len(parts) >= 3 /\ parts[Len(parts) - 1] = <<"p", "h", "o", "t", "o", "s">>
        THEN Some(parts[Len(parts)])
        ELSE None
extract_mongo_id_from_url(photo_url) ==
    LET parts == Split(photo_url)
    IN  IF Len(parts) >= 4 /\ parts[Len(parts) - 1] = <<"p", "h", "o", "t", "o", "s">>
        THEN Some(parts[Len(parts)])
        ELSE None

\* Results: Ok(value) or an anyhow error, the chain of its contexts outermost first
Ok(v) == [tag |-> "ok", val |-> v]
Err(chain) == [tag |-> "err", chain |-> chain]
NoRet == [tag |-> "none"]

NoPCall == [op |-> "none"]
NoPLocal == [oid |-> 0, mongo_id |-> <<>>, stamp |-> 0]

\* Photo contents: a byte vector, kept as its identity and its length
SmallPhoto == [tag |-> "small", len |-> 3]
LimitPhoto == [tag |-> "limit", len |-> MAX_PHOTO_BYTES]
OverPhoto == [tag |-> "over", len |-> MAX_PHOTO_BYTES + 1]
BigPhoto == [tag |-> "big", len |-> 11 * 1024 * 1024]

PhotoTypeInputs == {"profile", "emirates_id", "verification", "id_document", "selfie"}
ExtensionInputs == { <<"j", "p", "g">>, <<"j", "p", "e", "g">>, <<"p", "n", "g">>,
                     <<"P", "N", "G">>, <<"g", "i", "f">>, <<"w", "e", "b", "p">>,
                     <<"b", "m", "p">> }

Upload(u, t, d, e) == [op |-> "upload_photo", user_id |-> u, photo_type |-> t,
                       photo_data |-> d, file_extension |-> e]

\* Every combination of the argument values above, for one user.
AllUploads ==
    {Upload("u1", t, d, e) : t \in PhotoTypeInputs,
                             d \in {SmallPhoto, LimitPhoto, OverPhoto, BigPhoto},
                             e \in ExtensionInputs}

\* Two valid uploads, by different users, and one that is not valid.
CoreUploads ==
    {Upload("u1", "profile", SmallPhoto, <<"j", "p", "g">>),
     Upload("u2", "verification", LimitPhoto, <<"P", "N", "G">>),
     Upload("u1", "selfie", SmallPhoto, <<"b", "m", "p">>)}

\* One valid upload and one that is not valid.
PairUploads ==
    {Upload("u1", "profile", SmallPhoto, <<"j", "p", "g">>),
     Upload("u1", "selfie", SmallPhoto, <<"b", "m", "p">>)}

UploadInputs == IF uploads = "all" THEN AllUploads
                ELSE IF uploads = "pair" THEN PairUploads ELSE CoreUploads

\* The errors of the store calls themselves: the drivers' errors, innermost in the chain
StoreFailure(r) ==
    /\ r.tag = "err"
    /\ r.chain[Len(r.chain)] \in {"mongodb error", "diesel error", "r2d2 error"}

\* The photo ids a fetch is tried with: the hex ids of the ObjectIds generated so
\* far and of the next one, in lower and in upper case, the URLs of the rows, and a
\* string that is no ObjectId.
UpperOf(c) == IF \E i \in 1..16 : c = HexDigits[i]
              THEN UpperHexDigits[CHOOSE i \in 1..16 : c = HexDigits[i]] ELSE c
FirstOid == 10
FetchInputs ==
    {ToHex(o) : o \in FirstOid..next_oid}
    \cup {[i \in 1..OidHexLen |-> UpperOf(ToHex(o)[i])] : o \in FirstOid..next_oid}
    \cup {r.photo_url : r \in user_photos}
    \cup {<<"z">>}

FirstUuid == 1

InitPhoto(callers, budget, menu, history) ==
    /\ photos = [o \in {} |-> 0]
    /\ user_photos = {}
    /\ next_oid = FirstOid
    /\ next_uuid = FirstUuid
    /\ ppc = [p \in PProcs |-> IF p \in callers THEN "idle" ELSE "absent"]
    /\ pcall = [p \in PProcs |-> NoPCall]
    /\ plocal = [p \in PProcs |-> NoPLocal]
    /\ pret = [p \in PProcs |-> NoRet]
    /\ pops = budget
    /\ uploads = menu
    /\ faults = history

\* A call begins.
PBegin(p, c, first) ==
    /\ ppc[p] = "idle"
    /\ p = "p2" => (ppc["p1"] # "idle" \/ pcall["p1"].op # "none")
    /\ pops > 0
    /\ pops' = pops - 1
    /\ pcall' = [pcall EXCEPT ![p] = c]
    /\ pret' = [pret EXCEPT ![p] = NoRet]
    /\ ppc' = [ppc EXCEPT ![p] = first]
    /\ UNCHANGED faults

\* A call returns.
PReturn(p, r) ==
    /\ ppc' = [ppc EXCEPT ![p] = "idle"]
    /\ pret' = [pret EXCEPT ![p] = r]
    /\ plocal' = [plocal EXCEPT ![p] = NoPLocal]
    /\ faults' = IF faults = "none" /\ StoreFailure(r) THEN "some" ELSE faults

----------------------------------------------------------------------------
(* upload_photo(user_id, photo_type, photo_data, file_extension) *)

\* lines 52-62 and MongoPhoto::new: the document of an upload
MongoPhotoNewNoData(c, t) ==
    [ user_id |-> c.user_id,
      photo_type |-> c.photo_type,
      file_name |-> <<c.user_id, "_", c.photo_type, ".", c.file_extension>>,
      file_size |-> c.photo_data.len,
      content_type |-> ContentTypeOf(c.file_extension),
      photo_data |-> [tag |-> "empty", len |-> 0],
      is_verified |-> FALSE,
      created_at |-> t,
      updated_at |-> t ]
MongoPhotoNew(c, t) ==
    [ user_id |-> c.user_id,
      photo_type |-> c.photo_type,
      file_name |-> <<c.user_id, "_", c.photo_type, ".", c.file_extension>>,
      file_size |-> c.photo_data.len,
      content_type |-> ContentTypeOf(c.file_extension),
      photo_data |-> c.photo_data,
      is_verified |-> FALSE,
      created_at |-> t,
      updated_at |-> t ]

\* lines 38-50: the call begins with the validation; an invalid upload returns here
CallUploadPhoto(p, c) ==
    /\ PBegin(p, c, "up_mongo")
    /\ UNCHANGED <<photos, user_photos, next_oid, next_uuid, plocal, uploads, cvars, now>>

UploadValidate(p) ==
    /\ ppc[p] = "up_mongo"
    /\ plocal[p].oid = 0
    /\ LET v == ValidateUpload(pcall[p].photo_type, pcall[p].photo_data,
                               pcall[p].file_extension)
       IN  /\ v # "ok"
           /\ PReturn(p, Err(<<v>>))
    /\ UNCHANGED <<photos, user_photos, next_oid, next_uuid, pcall, pops, uploads, cvars, now>>

\* lines 64-65 and store_photo_in_mongodb: insert_one, which may fail
UploadStoreMongo(p) ==
    /\ ppc[p] = "up_mongo"
    /\ ValidateUpload(pcall[p].photo_type, pcall[p].photo_data,
                      pcall[p].file_extension) = "ok"
    /\ \/ /\ photos' = [o \in (DOMAIN photos) \cup {next_oid} |->
                          IF o = next_oid THEN MongoPhotoNew(pcall[p], now) ELSE photos[o]]
          /\ next_oid' = next_oid + 1
          /\ plocal' = [plocal EXCEPT ![p].oid = next_oid]
          /\ ppc' = [ppc EXCEPT ![p] = "up_pg"]
          /\ UNCHANGED <<pret, faults>>
       \/ /\ PReturn(p, Err(<<"Failed to store photo in MongoDB",
                              "Failed to insert photo into MongoDB", "mongodb error">>))
          /\ UNCHANGED <<photos, next_oid>>
    /\ UNCHANGED <<user_photos, next_uuid, pcall, pops, uploads, cvars, now>>

\* lines 169-177: the row store_photo_metadata_in_postgres inserts
NewDbUserPhoto(id, user_id, photo_type, photo_url, t) ==
    [ id |-> id, user_id |-> user_id, photo_type |-> photo_type, photo_url |-> photo_url,
      is_verified |-> FALSE, created_at |-> t, updated_at |-> t ]

\* lines 67-76 and store_photo_metadata_in_postgres: the connection or the insert
\* may fail; the error is returned as it is
UploadStorePg(p) ==
    /\ ppc[p] = "up_pg"
    /\ \/ LET row == NewDbUserPhoto(next_uuid, pcall[p].user_id, pcall[p].photo_type,
                                    PhotoUrl(plocal[p].oid), now)
          IN  /\ user_photos' = user_photos \cup {row}
              /\ next_uuid' = next_uuid + 1
              /\ PReturn(p, Ok(row))
       \/ /\ \E cause \in { <<"Failed to get database connection",
                              "Failed to get connection from PostgreSQL pool", "r2d2 error">>,
                            <<"Failed to insert photo metadata into PostgreSQL",
                              "diesel error">> } :
                PReturn(p, Err(<<"Failed to store photo metadata in PostgreSQL">> \o cause))
          /\ UNCHANGED <<user_photos, next_uuid>>
    /\ UNCHANGED <<photos, next_oid, pcall, pops, uploads, cvars, now>>

----------------------------------------------------------------------------
(* get_photo_data(photo_id) *)

\* lines 80-81: the id is parsed as the call begins
CallGetPhotoData(p, photo_id) ==
    /\ PBegin(p, [op |-> "get_photo_data", photo_id |-> photo_id], "get_mongo")
    /\ UNCHANGED <<photos, user_photos, next_oid, next_uuid, plocal, uploads, cvars, now>>

\* lines 80-88: find_one by _id, which may fail
GetPhotoDataOneError(p) ==
    /\ ppc[p] = "get_mongo"
    /\ LET object_id == ParseStr(pcall[p].photo_id)
       IN  IF object_id = None
           THEN PReturn(p, Err(<<"Photo not found">>))
           ELSE \/ PReturn(p, IF object_id[1] \in DOMAIN photos
                              THEN Ok(photos[object_id[1]])
                              ELSE Err(<<"Photo not found">>))
                \/ PReturn(p, Err(<<"Failed to query MongoDB", "mongodb error">>))
    /\ UNCHANGED <<photos, user_photos, next_oid, next_uuid, pcall, pops, uploads, cvars, now>>
GetPhotoData(p) ==
    /\ ppc[p] = "get_mongo"
    /\ LET object_id == ParseStr(pcall[p].photo_id)
       IN  IF object_id = None
           THEN PReturn(p, Err(<<"Invalid photo ID format", "bson oid error">>))
           ELSE \/ PReturn(p, IF object_id[1] \in DOMAIN photos
                              THEN Ok(photos[object_id[1]])
                              ELSE Err(<<"Photo not found">>))
                \/ PReturn(p, Err(<<"Failed to query MongoDB", "mongodb error">>))
    /\ UNCHANGED <<photos, user_photos, next_oid, next_uuid, pcall, pops, uploads, cvars, now>>

----------------------------------------------------------------------------
(* delete_photo(user_id, photo_id) *)

CallDeletePhoto(p, u, id) ==
    /\ PBegin(p, [op |-> "delete_photo", user_id |-> u, photo_id |-> id], "del_lookup")
    /\ UNCHANGED <<photos, user_photos, next_oid, next_uuid, plocal, uploads, cvars, now>>

\* lines 112-115: the rows with this id and this owner
RowsOfAnyOwner(rows, user_id, photo_id) == {r \in rows : r.id = photo_id}
RowsOf(rows, user_id, photo_id) == {r \in rows : r.id = photo_id /\ r.user_id = user_id}

\* lines 117-118: the URL of the row found is parsed
DeleteParseUrl(p, photo_url) ==
    LET mongo_id == extract_mongo_id_from_url(photo_url)
    IN  IF mongo_id = None
        THEN PReturn(p, Err(<<"Invalid photo URL format", "Invalid photo URL format">>))
        ELSE /\ plocal' = [plocal EXCEPT ![p].mongo_id = mongo_id[1]]
             /\ ppc' = [ppc EXCEPT ![p] = "del_mongo"]
             /\ UNCHANGED <<pret, faults>>

\* lines 110-118: the connection, the lookup scoped by id and owner, the URL parsed
DeleteLookup(p) ==
    /\ ppc[p] = "del_lookup"
    /\ \/ PReturn(p, Err(<<"Failed to get database connection",
                           "Failed to get connection from PostgreSQL pool", "r2d2 error">>))
       \/ LET found == RowsOf(user_photos, pcall[p].user_id, pcall[p].photo_id)
          IN  IF found = {}
              THEN PReturn(p, Err(<<"Photo not found or access denied", "NotFound">>))
              ELSE LET db_photo == CHOOSE r \in found : TRUE
                   IN  DeleteParseUrl(p, db_photo.photo_url)
    /\ UNCHANGED <<photos, user_photos, next_oid, next_uuid, pcall, pops, uploads, cvars, now>>

\* lines 201-204: what delete_photo_from_mongodb returns when delete_one answers
\* with deleted_count
DeleteOneResult(deleted_count) ==
    IF deleted_count = 0
    THEN Err(<<"Photo not found in MongoDB">>)
    ELSE Ok(<<>>)

\* lines 199-200 and 119-120: delete_one fails; the error goes to the caller and
\* nothing more is done
DeleteMongoFailsRowGone(p) ==
    /\ PReturn(p, Err(<<"Failed to delete photo from MongoDB",
                        "Failed to delete photo from MongoDB", "mongodb error">>))
    /\ user_photos' = {r \in user_photos : r.id # pcall[p].photo_id}
    /\ UNCHANGED photos
DeleteMongoFails(p) ==
    /\ PReturn(p, Err(<<"Failed to delete photo from MongoDB",
                        "Failed to delete photo from MongoDB", "mongodb error">>))
    /\ UNCHANGED <<photos, user_photos>>

\* lines 119-120 and delete_photo_from_mongodb: delete_one, which may fail
DeleteMongoKeepsBlob(p) ==
    /\ ppc[p] = "del_mongo"
    /\ ppc' = [ppc EXCEPT ![p] = "del_pg"]
    /\ UNCHANGED <<photos, user_photos, pret, plocal, faults>>
    /\ UNCHANGED <<next_oid, next_uuid, pcall, pops, uploads, cvars, now>>
DeleteMongo(p) ==
    /\ ppc[p] = "del_mongo"
    /\ LET object_id == ParseStr(plocal[p].mongo_id)
           ctx == <<"Failed to delete photo from MongoDB">>
       IN  IF object_id = None
           THEN /\ PReturn(p, Err(ctx \o <<"Invalid photo ID format", "bson oid error">>))
                /\ UNCHANGED <<photos, user_photos>>
           ELSE \/ DeleteMongoFails(p)
                \/ LET hit == (DOMAIN photos) \cap {object_id[1]}
                       res == DeleteOneResult(Cardinality(hit))
                   IN  /\ photos' = [o \in (DOMAIN photos) \ hit |-> photos[o]]
                       /\ UNCHANGED user_photos
                       /\ IF res.tag = "ok"
                          THEN /\ ppc' = [ppc EXCEPT ![p] = "del_pg"]
                               /\ UNCHANGED <<pret, plocal, faults>>
                          ELSE PReturn(p, Err(ctx \o res.chain))
    /\ UNCHANGED <<next_oid, next_uuid, pcall, pops, uploads, cvars, now>>

\* lines 121-126: the row is deleted by id; the number of rows deleted is not read
DeletePgKeepsRow(p) ==
    /\ ppc[p] = "del_pg"
    /\ PReturn(p, Ok(<<>>))
    /\ UNCHANGED <<user_photos, photos, next_oid, next_uuid, pcall, pops, uploads, cvars, now>>
DeletePg(p) ==
    /\ ppc[p] = "del_pg"
    /\ \/ /\ user_photos' = {r \in user_photos : r.id # pcall[p].photo_id}
          /\ PReturn(p, Ok(<<>>))
       \/ /\ PReturn(p, Err(<<"Failed to delete photo metadata from PostgreSQL",
                              "diesel error">>))
          /\ UNCHANGED user_photos
    /\ UNCHANGED <<photos, next_oid, next_uuid, pcall, pops, uploads, cvars, now>>

----------------------------------------------------------------------------
(* delete_photo from line 117 on, for a row with any photo_url *)

\* The URLs tried: up to MaxSegments segments joined by '/', the URLs upload_photo
\* builds, and such a URL with one more segment, with another prefix, with nothing
\* before "photos" and without "photos".
Segments == { <<>>, <<"p", "h", "o", "t", "o", "s">>, ToHex(FirstOid) }

RECURSIVE Join(_)
Join(segs) ==
    IF Len(segs) = 1 THEN segs[1]
    ELSE segs[1] \o <<"/">> \o Join(Tail(segs))

LocatorInputs ==
    {Join(segs) : segs \in UNION {[1..n -> Segments] : n \in 1..MaxSegments}}
    \cup {PhotoUrl(o) : o \in FirstOid..(FirstOid + 2)}
    \cup {PhotoUrl(FirstOid) \o <<"/", "x">>}
    \cup {<<"/", "x", "/", "v", "1", "/", "p", "h", "o", "t", "o", "s", "/">> \o ToHex(FirstOid)}
    \cup {<<"/", "p", "h", "o", "t", "o", "s", "/">> \o ToHex(FirstOid)}
    \cup {<<"/", "a", "p", "i", "/", "v", "1", "/">> \o ToHex(FirstOid)}

\* The lookup of lines 112-116 has returned a row with this URL.
CallDeleteParse(p, u, url) ==
    /\ PBegin(p, [op |-> "delete_photo", user_id |-> u, photo_id |-> FirstUuid,
                  photo_url |-> url], "del_parse")
    /\ UNCHANGED <<photos, user_photos, next_oid, next_uuid, plocal, uploads, cvars, now>>

DeleteParse(p) ==
    /\ ppc[p] = "del_parse"
    /\ DeleteParseUrl(p, pcall[p].photo_url)
    /\ UNCHANGED <<photos, user_photos, next_oid, next_uuid, pcall, pops, uploads, cvars, now>>

NextLocator ==
    \/ \E p \in PProcs : \E url \in LocatorInputs : CallDeleteParse(p, "u1", url)
    \/ \E p \in PProcs : DeleteParse(p)
    \/ \E p \in PProcs : DeleteMongo(p)

----------------------------------------------------------------------------
(* verify_photo(user_id, photo_id) *)

\* lines 131-139: the statement is built, with the Utc::now() of line 138, before
\* it is sent to the database
CallVerifyPhoto(p, u, id) ==
    /\ PBegin(p, [op |-> "verify_photo", user_id |-> u, photo_id |-> id], "ver_pg")
    /\ plocal' = [plocal EXCEPT ![p].stamp = now]
    /\ UNCHANGED <<photos, user_photos, next_oid, next_uuid, uploads, cvars, now>>

\* lines 136-139: the columns the update sets
VerifiedRowStamped(old, t) ==
    [old EXCEPT !.is_verified = TRUE, !.updated_at = t, !.created_at = t]
VerifiedRowToggled(old, t) ==
    [old EXCEPT !.is_verified = ~old.is_verified, !.updated_at = t]
VerifiedRow(old, t) == [old EXCEPT !.is_verified = TRUE, !.updated_at = t]

\* lines 129-151: the update scoped by id and owner
VerifyPg(p) ==
    /\ ppc[p] = "ver_pg"
    /\ \/ /\ PReturn(p, Err(<<"Failed to get database connection",
                              "Failed to get connection from PostgreSQL pool", "r2d2 error">>))
          /\ UNCHANGED user_photos
       \/ LET found == RowsOf(user_photos, pcall[p].user_id, pcall[p].photo_id)
          IN  IF found = {}
              THEN /\ PReturn(p, Err(<<"Failed to verify photo or photo not found",
                                       "NotFound">>))
                   /\ UNCHANGED user_photos
              ELSE LET old == CHOOSE r \in found : TRUE
                       new == VerifiedRow(old, plocal[p].stamp)
                   IN  /\ user_photos' = (user_photos \ {old}) \cup {new}
                       /\ PReturn(p, Ok(new))
       \/ /\ PReturn(p, Err(<<"Failed to verify photo or photo not found", "diesel error">>))
          /\ UNCHANGED user_photos
    /\ UNCHANGED <<photos, next_oid, next_uuid, pcall, pops, uploads, cvars, now>>

\* Utc::now() advances between the steps of the photo service.
PhotoTick ==
    /\ TicksAt(now) < MaxPhotoTicks
    /\ now' = NextInstant(now)
    /\ UNCHANGED <<cvars, pvars>>

\* The row ids a delete or a verification is tried with: those generated so far
\* and the next one.
RowIdInputs == FirstUuid..next_uuid

NextPhoto ==
    \/ \E p \in PProcs : \E c \in UploadInputs : CallUploadPhoto(p, c)
    \/ \E p \in PProcs : UploadValidate(p)
    \/ \E p \in PProcs : UploadStoreMongo(p)
    \/ \E p \in PProcs : UploadStorePg(p)
    \/ \E p \in PProcs : \E id \in FetchInputs : CallGetPhotoData(p, id)
    \/ \E p \in PProcs : GetPhotoData(p)
    \/ \E p \in PProcs, u \in Users : \E id \in RowIdInputs : CallDeletePhoto(p, u, id)
    \/ \E p \in PProcs : DeleteLookup(p)
    \/ \E p \in PProcs : DeleteMongo(p)
    \/ \E p \in PProcs : DeletePg(p)
    \/ \E p \in PProcs, u \in Users : \E id \in RowIdInputs : CallVerifyPhoto(p, u, id)
    \/ \E p \in PProcs : VerifyPg(p)
    \/ PhotoTick

\* upload_photo, verify_photo and delete_photo only.
NextRace ==
    \/ \E p \in PProcs : \E c \in UploadInputs : CallUploadPhoto(p, c)
    \/ \E p \in PProcs : UploadValidate(p)
    \/ \E p \in PProcs : UploadStoreMongo(p)
    \/ \E p \in PProcs : UploadStorePg(p)
    \/ \E p \in PProcs, u \in Users : \E id \in RowIdInputs : CallDeletePhoto(p, u, id)
    \/ \E p \in PProcs : DeleteLookup(p)
    \/ \E p \in PProcs : DeleteMongo(p)
    \/ \E p \in PProcs : DeletePg(p)
    \/ \E p \in PProcs, u \in Users : \E id \in RowIdInputs : CallVerifyPhoto(p, u, id)
    \/ \E p \in PProcs : VerifyPg(p)

\* upload_photo and verify_photo only, and the clock.
NextVerify ==
    \/ \E p \in PProcs : \E c \in UploadInputs : CallUploadPhoto(p, c)
    \/ \E p \in PProcs : UploadValidate(p)
    \/ \E p \in PProcs : UploadStoreMongo(p)
    \/ \E p \in PProcs : UploadStorePg(p)
    \/ \E p \in PProcs, u \in Users : \E id \in RowIdInputs : CallVerifyPhoto(p, u, id)
    \/ \E p \in PProcs : VerifyPg(p)
    \/ PhotoTick

NextUpload ==
    \/ \E p \in PProcs : \E c \in UploadInputs : CallUploadPhoto(p, c)
    \/ \E p \in PProcs : UploadValidate(p)
    \/ \E p \in PProcs : UploadStoreMongo(p)
    \/ \E p \in PProcs : UploadStorePg(p)

----------------------------------------------------------------------------
InitSolo ==
    /\ InitCache({"c1"}, MaxSoloOps, Configs, TRUE)
    /\ InitPhoto({}, 0, "core", "off")
    /\ now = 0
    /\ xor_io = NoXor

InitAutoGc ==
    /\ InitCache({"c1"}, MaxSoloOps, AutoGcConfigs, FALSE)
    /\ InitPhoto({}, 0, "core", "off")
    /\ now = 0
    /\ xor_io = NoXor

\* No manager yet: the cell is empty and its permit free, no task runs; config,
\* cache and stats have no owner until MemoryManager::new writes them.
InitOnce ==
    /\ config = GcConfigDefault
    /\ cache = EmptyMap
    /\ stats = [ allocated_bytes |-> 0, peak_allocated_bytes |-> 0,
                 gc_runs |-> 0, last_gc_time |-> None ]
    /\ cache_lock = "none"
    /\ stats_lock = "none"
    /\ cpc = [p \in CProcs \cup {Bg} |-> IF p = Bg THEN "off" ELSE "idle"]
    /\ ccall = [p \in CProcs |-> NoCall]
    /\ clocal = [p \in CProcs \cup {Bg} |-> NoLocal]
    /\ cret = [p \in CProcs |-> [tag |-> "none"]]
    /\ cops = MaxOnceOps
    /\ hist = <<>>
    /\ solo = "off"
    /\ MEMORY_MANAGER = [value |-> None, permit |-> "free"]
    /\ made = [managers |-> 0, tasks |-> 0, calls |-> [p \in CProcs |-> NoAccess]]
    /\ InitPhoto({}, 0, "core", "off")
    /\ now = 0
    /\ xor_io = NoXor

InitLock ==
    /\ InitCache(CProcs, MaxLockOps, {GcConfigDefault}, FALSE)
    /\ InitPhoto({}, 0, "core", "off")
    /\ now = 0
    /\ xor_io = NoXor

\* xor_encrypt is about to be applied to some data and some key.
InitXor ==
    /\ InitCache({}, 0, {GcConfigDefault}, FALSE)
    /\ InitPhoto({}, 0, "core", "off")
    /\ now = 0
    /\ \E d \in BytesUpTo(MaxDataLen), k \in BytesUpTo(MaxKeyLen) :
          xor_io = [NoXor EXCEPT !.pc = "encrypt", !.data = d, !.key = k]

InitDuo ==
    /\ InitCache(CProcs, MaxDuoOps, {GcConfigDefault}, FALSE)
    /\ InitPhoto({}, 0, "core", "off")
    /\ now = 0
    /\ xor_io = NoXor

InitPhotoSolo ==
    /\ InitCache({}, 0, {GcConfigDefault}, FALSE)
    /\ InitPhoto({"p1"}, MaxPhotoOps, "core", "off")
    /\ now = 0
    /\ xor_io = NoXor

InitUpload ==
    /\ InitCache({}, 0, {GcConfigDefault}, FALSE)
    /\ InitPhoto({"p1"}, MaxUploadOps, "all", "off")
    /\ now = 0
    /\ xor_io = NoXor

InitPhotoDuo ==
    /\ InitCache({}, 0, {GcConfigDefault}, FALSE)
    /\ InitPhoto(PProcs, MaxPhotoDuoOps, "core", "off")
    /\ now = 0
    /\ xor_io = NoXor

InitPhotoRace ==
    /\ InitCache({}, 0, {GcConfigDefault}, FALSE)
    /\ InitPhoto(PProcs, MaxRaceOps, "core", "none")
    /\ now = 0
    /\ xor_io = NoXor

InitLocator ==
    /\ InitCache({}, 0, {GcConfigDefault}, FALSE)
    /\ InitPhoto({"p1"}, MaxLocatorOps, "core", "off")
    /\ now = 0
    /\ xor_io = NoXor

InitVerify ==
    /\ InitCache({}, 0, {GcConfigDefault}, FALSE)
    /\ InitPhoto(PProcs, MaxRaceOps, "pair", "off")
    /\ now = 0
    /\ xor_io = NoXor

NextCache ==
    \/ \E p \in CProcs, k \in Keys, d \in Payloads : CallCacheData(p, k, d)
    \/ \E p \in CProcs : CacheDataInsert(p)
    \/ \E p \in CProcs : CacheDataStatsLock(p)
    \/ \E p \in CProcs : CacheDataStats(p)
    \/ \E p \in CProcs, k \in Keys : CallGetCachedData(p, k)
    \/ \E p \in CProcs : GetCachedData(p)
    \/ \E p \in CProcs, k \in Keys : CallRemoveCachedData(p, k)
    \/ \E p \in CProcs : RemoveCachedDataMap(p)
    \/ \E p \in CProcs : RemoveCachedDataStats(p)
    \/ \E p \in CProcs : CallClearCache(p)
    \/ \E p \in CProcs : ClearCacheMap(p)
    \/ \E p \in CProcs : ClearCacheStats(p)
    \/ \E p \in CProcs : CallGetStats(p)
    \/ \E p \in CProcs : GetStats(p)
    \/ \E p \in CProcs : CallForceGc(p)
    \/ \E p \in CProcs \cup {Bg} : GcSweep(p)
    \/ \E p \in CProcs \cup {Bg} : GcStatsLock(p)
    \/ \E p \in CProcs \cup {Bg} : GcStats(p)
    \/ AutoGcTick
    \/ Tick

vars == <<cvars, pvars, now>>

\* One caller and the background task.
CacheSpec == InitSolo /\ [][NextCache]_vars

\* One caller that fills the cache, and the background task.
AutoGcSpec == InitAutoGc /\ [][NextAutoGc]_vars

\* Two callers and the background task on one key; a task that can take a step
\* is scheduled, and a lock that is free is granted.
LockSpec ==
    /\ InitLock
    /\ [][NextLock]_vars
    /\ \A p \in CProcs \cup {Bg} : WF_vars(StepsOf(p))

\* Two concurrent callers and the background task; no put replaces an entry.
FreshSpec == InitDuo /\ [][NextFresh]_vars

\* xor_encrypt followed by xor_decrypt, on every input within the bounds.
XorSpec == InitXor /\ [][NextXor]_vars

\* Two concurrent callers of the module-level functions, from an empty cell.
OnceSpec == InitOnce /\ [][NextOnce]_vars

\* Two concurrent callers and the background task.
CacheSpecDuo == InitDuo /\ [][NextCache]_vars

\* One caller of the photo service, every store call of which may fail.
PhotoSpec == InitPhotoSolo /\ [][NextPhoto]_vars

\* One caller that tries every combination of upload arguments.
UploadSpec == InitUpload /\ [][NextUpload]_vars

\* Two concurrent callers of the photo service.
PhotoSpecDuo == InitPhotoDuo /\ [][NextPhoto]_vars

\* Two concurrent callers that upload, verify and delete, and the history of
\* whether a store call has failed.
PhotoSpecRace == InitPhotoRace /\ [][NextRace]_vars

\* Two concurrent callers that upload and verify while the clock advances.
VerifySpec == InitVerify /\ [][NextVerify]_vars

\* The parsing of a row's URL in delete_photo, for any URL.
LocatorSpec == InitLocator /\ [][NextLocator]_vars

----------------------------------------------------------------------------
(***************************************************************************)
(* Properties                                                              *)
(***************************************************************************)

\* The error of a store call that failed.
MongoFailed(r) == r.tag = "err" /\ r.chain[Len(r.chain)] = "mongodb error"
ConnFailed(r) == r.tag = "err" /\ r.chain[Len(r.chain)] = "r2d2 error"

\* C1: in every reachable state allocated_bytes equals the sum of the payload
\* sizes of the entries currently in the map.
C1_AllocatedEqualsMapBytes == stats.allocated_bytes = CacheBytes(cache)

\* C2: when put(k, A) and then put(k, B) have run back to back with no other
\* operation in between, allocated_bytes is its value before the first put plus
\* size(B).
C2_OverwriteNetDelta ==
    (Len(hist) = 2 /\ hist[1].key = hist[2].key)
        => stats.allocated_bytes = hist[1].before + hist[2].size

\* C3: when upload_photo returns an error after its blob was written, either the
\* blob is gone from the blob store or the error reports that deleting it failed.
ReportsCompensationFailure(r) ==
    \E i \in 1..Len(r.chain) : r.chain[i] = "Failed to delete photo from MongoDB"

C3_UploadCompensates ==
    [][\A p \in PProcs :
          (ppc[p] = "up_pg" /\ pret'[p].tag = "err")
              => \/ plocal[p].oid \notin DOMAIN photos'
                 \/ ReportsCompensationFailure(pret'[p])]_vars

\* C4: when delete_photo finds the row of its owner and the blob its URL names is
\* absent from the blob store, and the blob store answers, the blob step counts
\* as success: delete_photo goes on to delete the row.
C4_AbsentBlobIsSuccess ==
    [][\A p \in PProcs :
          (/\ ppc[p] = "del_mongo"
           /\ ppc'[p] # "del_mongo"
           /\ ParseStr(plocal[p].mongo_id) # None
           /\ ParseStr(plocal[p].mongo_id)[1] \notin DOMAIN photos
           /\ ~MongoFailed(pret'[p]))
              => ppc'[p] = "del_pg"]_vars

\* C5: when the blob store's delete fails with a storage error, delete_photo
\* returns an error at once, and the row is still there, unchanged.
C5_StorageErrorKeepsRow ==
    [][\A p \in PProcs :
          (ppc[p] = "del_mongo" /\ MongoFailed(pret'[p]))
              => /\ ppc'[p] = "idle"
                 /\ user_photos' = user_photos
                 /\ \E r \in user_photos' : /\ r.id = pcall[p].photo_id
                                            /\ r.user_id = pcall[p].user_id]_vars

C5_Witness ==
    \E p \in PProcs :
        /\ pcall[p].op = "delete_photo"
        /\ MongoFailed(pret[p])
        /\ \E r \in user_photos : r.id = pcall[p].photo_id /\ r.user_id = pcall[p].user_id

\* C6: when no row has both the id and the owner of a delete_photo call, the call
\* returns an error and changes neither store, and the error is the lookup's
\* "not found" whenever the metadata store answered; after a delete_photo that
\* succeeded no row has its id, so that a second delete of it finds nothing.
C6_NotFound == Err(<<"Photo not found or access denied", "NotFound">>)

RejectedPhotoType(p) == pret[p].tag = "err" /\ pret[p].chain = <<"Invalid photo type">>
UploadReturned(p) == pcall[p].op = "upload_photo" /\ pret[p].tag # "none"

C7_SpecWhitelist ==
    \A p \in PProcs :
        UploadReturned(p)
            => (RejectedPhotoType(p)
                  <=> pcall[p].photo_type \notin {"profile", "id_document", "verification"})

\* C7, amended: upload_photo rejects the photo type exactly when it is not one of
\* profile, emirates_id, verification.
C7_CodeWhitelist ==
    \A p \in PProcs :
        UploadReturned(p)
            => (RejectedPhotoType(p)
                  <=> pcall[p].photo_type \notin {"profile", "emirates_id", "verification"})

C7_Witness ==
    \E p \in PProcs :
        /\ UploadReturned(p)
        /\ pcall[p].photo_type = "emirates_id"
        /\ pret[p].tag = "ok"

\* C8: an upload whose photo type is not accepted, whose content is longer than
\* 10 MiB or whose lower-cased extension is not jpg, jpeg, png, gif or webp returns
\* a validation error and writes neither store; every other upload, content of
\* exactly 10 MiB and upper-case extensions included, passes the validation.
IsValidationError(r) ==
    /\ r.tag = "err"
    /\ r.chain \in { <<"Invalid photo type">>,
                     <<"File size too large. Maximum 10MB allowed">>,
                     <<"Unsupported file format">> }

InvalidUpload(c) ==
    \/ c.photo_type \notin {"profile", "emirates_id", "verification"}
    \/ c.photo_data.len > 10 * 1024 * 1024
    \/ ToLowercase(c.file_extension) \notin
           { <<"j", "p", "g">>, <<"j", "p", "e", "g">>, <<"p", "n", "g">>,
             <<"g", "i", "f">>, <<"w", "e", "b", "p">> }

C8_InvalidUploadTouchesNoStore ==
    [][\A p \in PProcs :
          (ppc[p] = "up_mongo" /\ ppc'[p] # "up_mongo")
              => IF InvalidUpload(pcall[p])
                 THEN /\ IsValidationError(pret'[p])
                      /\ photos' = photos
                      /\ user_photos' = user_photos
                      /\ next_oid' = next_oid
                      /\ next_uuid' = next_uuid
                 ELSE ~IsValidationError(pret'[p])]_vars

C8_Witness ==
    \E p \in PProcs :
        /\ pcall[p].op = "upload_photo"
        /\ pcall[p].photo_type = "profile"
        /\ pcall[p].photo_data = BigPhoto
        /\ pcall[p].file_extension = <<"P", "N", "G">>
        /\ pret[p] = Err(<<"File size too large. Maximum 10MB allowed">>)
        /\ DOMAIN photos = {}
        /\ user_photos = {}

\* C9: the step that completes a successful upload inserts exactly the row it
\* returns; the row has the owner and the photo type of the call, the URL
\* "/api/v1/photos/" followed by the hex id of the blob this call wrote before,
\* is_verified = false and created_at = updated_at; and no row with a new id is
\* ever inserted whose URL names no blob already in the blob store.
C9_UploadDescriptor ==
    [][/\ \A p \in PProcs :
            (ppc[p] = "up_pg" /\ pret'[p].tag = "ok")
                => LET d == pret'[p].val
                   IN  /\ d \notin user_photos
                       /\ user_photos' = user_photos \cup {d}
                       /\ photos' = photos
                       /\ d.user_id = pcall[p].user_id
                       /\ d.photo_type = pcall[p].photo_type
                       /\ plocal[p].oid \in DOMAIN photos
                       /\ photos[plocal[p].oid].photo_data = pcall[p].photo_data
                       /\ d.photo_url = PhotosPrefix \o ToHex(plocal[p].oid)
                       /\ d.is_verified = FALSE
                       /\ d.created_at = d.updated_at
       /\ \A r \in user_photos' :
            (\A x \in user_photos : x.id # r.id)
                => \E o \in DOMAIN photos : r.photo_url = PhotosPrefix \o ToHex(o)]_vars

C9_Witness ==
    \E p \in PProcs :
        /\ pcall[p].op = "upload_photo"
        /\ pret[p].tag = "ok"
        /\ pret[p].val \in user_photos
        /\ \E o \in DOMAIN photos : pret[p].val.photo_url = PhotosPrefix \o ToHex(o)

\* C10: after an upload that succeeded, and while the blob it wrote has not been
\* deleted, a fetch of the URL of the returned row that the blob store answers
\* returns the uploaded content.
UploadOk(p) == pcall[p].op = "upload_photo" /\ pret[p].tag = "ok"
LocatorBlobId(url) == SubSeq(url, Len(PhotosPrefix) + 1, Len(url))
BlobThere(url) ==
    /\ ParseStr(LocatorBlobId(url)) # None
    /\ ParseStr(LocatorBlobId(url))[1] \in DOMAIN photos

C10_FetchOfLocator ==
    [][\A p, q \in PProcs :
          (/\ UploadOk(p)
           /\ ppc[q] = "get_mongo"
           /\ ppc'[q] = "idle"
           /\ pcall[q].photo_id = pret[p].val.photo_url
           /\ BlobThere(pret[p].val.photo_url)
           /\ ~MongoFailed(pret'[q]))
              => /\ pret'[q].tag = "ok"
                 /\ pret'[q].val.photo_data = pcall[p].photo_data]_vars

\* C10, amended: ... a fetch of the blob id embedded in the URL of the returned
\* row (the segment after "photos/") returns the uploaded content.
C10_FetchOfLocatorId ==
    [][\A p, q \in PProcs :
          (/\ UploadOk(p)
           /\ ppc[q] = "get_mongo"
           /\ ppc'[q] = "idle"
           /\ pcall[q].photo_id = LocatorBlobId(pret[p].val.photo_url)
           /\ BlobThere(pret[p].val.photo_url)
           /\ ~MongoFailed(pret'[q]))
              => /\ pret'[q].tag = "ok"
                 /\ pret'[q].val.photo_data = pcall[p].photo_data]_vars

C10_Witness ==
    \E p, q \in PProcs :
        /\ UploadOk(p)
        /\ pcall[q].op = "get_photo_data"
        /\ pcall[q].photo_id = LocatorBlobId(pret[p].val.photo_url)
        /\ pret[q].tag = "ok"
        /\ pret[q].val.photo_data = pcall[p].photo_data
        /\ pcall[p].photo_data = LimitPhoto

\* C11: when no call is in progress and no store call has failed so far, the rows
\* and the blobs are in one-to-one correspondence: the URL of every row names a
\* blob of the collection, no two rows name the same blob, and every blob is named
\* by exactly one row.
Quiescent == \A p \in PProcs : ppc[p] \in {"idle", "absent"}
RowsNaming(o) == {r \in user_photos : r.photo_url = PhotosPrefix \o ToHex(o)}

C11_OneToOne ==
    (Quiescent /\ faults = "none")
        => /\ \A r \in user_photos : BlobThere(r.photo_url)
           /\ \A r1, r2 \in user_photos :
                 r1.photo_url = r2.photo_url => r1 = r2
           /\ \A o \in DOMAIN photos : Cardinality(RowsNaming(o)) = 1

\* Two uploads and a delete have completed without a store failure.
C11_Witness ==
    /\ Quiescent
    /\ faults = "none"
    /\ Cardinality(user_photos) = 1
    /\ next_uuid = FirstUuid + 2
    /\ \E p \in PProcs : pcall[p].op = "delete_photo" /\ pret[p].tag = "ok"

\* C12: get_photo_data returns the error "Photo not found" both when its argument
\* is no ObjectId and when it is one that no blob has; it returns the blob of any
\* ObjectId that a blob has, whoever calls; and it changes neither store.
FetchStep(p) == ppc[p] = "get_mongo" /\ ppc'[p] = "idle" /\ ~MongoFailed(pret'[p])
FetchKeepsStores ==
    \A p \in PProcs :
        (pcall'[p].op = "get_photo_data" /\ <<ppc[p], pcall[p]>> # <<ppc'[p], pcall'[p]>>)
            => photos' = photos /\ user_photos' = user_photos
FetchOfBlob(p) ==
    LET object_id == ParseStr(pcall[p].photo_id)
    IN  (object_id # None /\ object_id[1] \in DOMAIN photos)
            => pret'[p] = Ok(photos[object_id[1]])

C12_FetchNotFound ==
    [][/\ FetchKeepsStores
       /\ \A p \in PProcs :
            FetchStep(p)
                => /\ FetchOfBlob(p)
                   /\ (\/ ParseStr(pcall[p].photo_id) = None
                       \/ ParseStr(pcall[p].photo_id)[1] \notin DOMAIN photos)
                          => pret'[p] = Err(<<"Photo not found">>)]_vars

\* C12, amended: get_photo_data returns the error "Invalid photo ID format" when
\* its argument is no ObjectId and the error "Photo not found" when it is one that
\* no blob has; it returns the blob of any ObjectId that a blob has, whoever
\* calls; and it changes neither store.
C12_FetchErrors ==
    [][/\ FetchKeepsStores
       /\ \A p \in PProcs :
            FetchStep(p)
                => /\ FetchOfBlob(p)
                   /\ ParseStr(pcall[p].photo_id) = None
                          => pret'[p] = Err(<<"Invalid photo ID format", "bson oid error">>)
                   /\ (/\ ParseStr(pcall[p].photo_id) # None
                       /\ ParseStr(pcall[p].photo_id)[1] \notin DOMAIN photos)
                          => pret'[p] = Err(<<"Photo not found">>)]_vars

\* The fetch of the URL of a row failed on the format of the id while the blob the
\* URL names was in the collection.
C12_Witness ==
    \E p, q \in PProcs :
        /\ pcall[p].op = "get_photo_data"
        /\ pret[p] = Err(<<"Invalid photo ID format", "bson oid error">>)
        /\ Len(pcall[p].photo_id) > Len(PhotosPrefix)
        /\ BlobThere(pcall[p].photo_id)
        /\ UploadOk(q)

\* C13: the parsing of a row's URL in delete_photo accepts exactly the strings
\* "/api/v1/photos/" followed by an id, and returns that id; for every other
\* string delete_photo returns the error "Invalid photo URL format" and changes
\* no store.
ParseStep(p) == ppc[p] = "del_parse" /\ ppc'[p] # "del_parse"
IdOf(url) == SubSeq(url, Len(PhotosPrefix) + 1, Len(url))
SpecShape(url) ==
    /\ Len(url) >= Len(PhotosPrefix)
    /\ SubSeq(url, 1, Len(PhotosPrefix)) = PhotosPrefix
    /\ \A i \in 1..Len(IdOf(url)) : IdOf(url)[i] # "/"
MalformedUrl == Err(<<"Invalid photo URL format", "Invalid photo URL format">>)

C13_SpecShapeOnly ==
    [][\A p \in PProcs :
          ParseStep(p)
              => IF SpecShape(pcall[p].photo_url)
                 THEN ppc'[p] = "del_mongo" /\ plocal'[p].mongo_id = IdOf(pcall[p].photo_url)
                 ELSE /\ pret'[p] = MalformedUrl
                      /\ photos' = photos
                      /\ user_photos' = user_photos]_vars

\* C13, amended: the parsing accepts exactly the strings that split at '/' into at
\* least four segments of which the one before the last is "photos", whatever
\* comes before, and returns the last segment (for the URL upload_photo builds for
\* a blob: the hex id of the blob); for every other string delete_photo returns
\* the error "Invalid photo URL format" and changes no store.
Marker == <<"/", "p", "h", "o", "t", "o", "s", "/">>
AcceptedAt(url, i) ==
    /\ i + Len(Marker) - 1 <= Len(url)
    /\ SubSeq(url, i, i + Len(Marker) - 1) = Marker
    /\ \A k \in (i + Len(Marker))..Len(url) : url[k] # "/"
    /\ \E j \in 1..(i - 1) : url[j] = "/"
CodeShape(url) == \E i \in 1..Len(url) : AcceptedAt(url, i)

C13_CodeShape ==
    [][\A p \in PProcs :
          ParseStep(p)
              => /\ IF CodeShape(pcall[p].photo_url)
                    THEN /\ ppc'[p] = "del_mongo"
                         /\ \A i \in 1..Len(pcall[p].photo_url) :
                               AcceptedAt(pcall[p].photo_url, i)
                                   => plocal'[p].mongo_id =
                                          SubSeq(pcall[p].photo_url, i + Len(Marker),
                                                 Len(pcall[p].photo_url))
                    ELSE /\ pret'[p] = MalformedUrl
                         /\ photos' = photos
                         /\ user_photos' = user_photos
                 /\ \A o \in FirstOid..(FirstOid + 2) :
                        pcall[p].photo_url = PhotosPrefix \o ToHex(o)
                            => ppc'[p] = "del_mongo" /\ plocal'[p].mongo_id = ToHex(o)]_vars

\* A URL with another prefix before "photos" was accepted.
C13_Witness ==
    \E p \in PProcs :
        /\ pcall[p].op = "delete_photo"
        /\ ppc[p] = "del_mongo"
        /\ pcall[p].photo_url =
               <<"/", "x", "/", "v", "1", "/", "p", "h", "o", "t", "o", "s", "/">> \o ToHex(FirstOid)
        /\ plocal[p].mongo_id = ToHex(FirstOid)

\* C14: when two delete_photo calls for the same row and owner have both found
\* the row, and one of them has removed it and returned success, the other one,
\* unless a store call of its own fails, returns the "not found" error of C6.
C14_RaceLoserNotFound ==
    [][\A p, q \in PProcs :
          (/\ p # q
           /\ pcall[p].op = "delete_photo"
           /\ pcall[q] = pcall[p]
           /\ pret[q].tag = "ok"
           /\ ppc[p] \in {"del_mongo", "del_pg"}
           /\ ppc'[p] = "idle"
           /\ \A r \in user_photos : r.id # pcall[p].photo_id
           /\ ~StoreFailure(pret'[p]))
              => pret'[p] = C6_NotFound]_vars

\* C15: verify_photo changes only is_verified and updated_at of the one row that
\* has both the id and the owner of the call: the other columns of that row, every
\* other row and the blobs stay as they are; when no row matches, it returns an
\* error (the update's "not found" unless the store call itself fails), changes
\* nothing and inserts no row. No step of any call changes a blob that exists.
VerifyStep(p) == ppc[p] = "ver_pg" /\ ppc'[p] = "idle"
Matching(p) ==
    {r \in user_photos : r.id = pcall[p].photo_id /\ r.user_id = pcall[p].user_id}
VerifyNotFound == Err(<<"Failed to verify photo or photo not found", "NotFound">>)

VerifyBegins(q) == ppc[q] = "idle" /\ ppc'[q] = "ver_pg"
VerifiedBefore(p, q) ==
    /\ ppc[p] = "idle"
    /\ pcall[p].op = "verify_photo"
    /\ pret[p].tag = "ok"
    /\ pcall'[q].photo_id = pcall[p].photo_id
    /\ pcall'[q].user_id = pcall[p].user_id

C16_VerifyIdempotent ==
    [][/\ \A p, q \in PProcs :
            (VerifyBegins(q) /\ VerifiedBefore(p, q))
                => plocal'[q].stamp >= pret[p].val.updated_at
       /\ \A q \in PProcs :
            (VerifyStep(q) /\ pret'[q].tag = "ok")
                => /\ pret'[q].val.is_verified = TRUE
                   /\ pret'[q].val.updated_at = plocal[q].stamp
                   /\ pret'[q].val \in user_photos'
       /\ \A r \in user_photos : \A r2 \in user_photos' :
            (r.is_verified /\ r2.id = r.id) => r2.is_verified]_vars

\* Two calls have verified the same row one after the other, the second one later.
C16_Witness ==
    \E p, q \in PProcs :
        /\ p # q
        /\ pcall[p].op = "verify_photo" /\ pret[p].tag = "ok"
        /\ pcall[q].op = "verify_photo" /\ pret[q].tag = "ok"
        /\ pcall[q].photo_id = pcall[p].photo_id
        /\ pret[p].val.is_verified /\ pret[q].val.is_verified
        /\ pret[p].val.updated_at < pret[q].val.updated_at
        /\ pret[q].val \in user_photos

\* C17: the sweep of a garbage collection pass removes every entry whose age at
\* the time of the pass is more than one hour and no other entry, and the pass
\* then decreases allocated_bytes by exactly the sum of the sizes of the entries
\* it removed; an entry of age at most one hour leaves the map, or is replaced,
\* only in remove_cached_data, clear_cache or cache_data.
GcProcs == CProcs \cup {Bg}
SweepStep(p) == cpc[p] = "gc_sweep" /\ cpc'[p] = "gc_stats_lock"
GcStatsStep(p) == cpc[p] = "gc_stats" /\ cpc'[p] # "gc_stats"
Age(k, t) == t - cache[k].ts

SweepByAge ==
    \A p \in GcProcs :
        SweepStep(p)
            => /\ \A k \in DOMAIN cache :
                     IF Age(k, clocal[p].start_time) > 3600
                     THEN k \notin DOMAIN cache'
                     ELSE k \in DOMAIN cache' /\ cache'[k] = cache[k]
               /\ DOMAIN cache' \subseteq DOMAIN cache
               /\ clocal'[p].freed_bytes = CacheBytes(cache) - CacheBytes(cache')
YoungEntriesStay ==
    \A k \in DOMAIN cache :
        (Age(k, now) <= 3600 /\ (k \notin DOMAIN cache' \/ cache'[k] # cache[k]))
            => \E p \in CProcs :
                  /\ cpc[p] \in {"rm_cache", "cl_cache", "cd_insert"}
                  /\ cpc'[p] # cpc[p]

C17_GcByAgeExact ==
    [][/\ SweepByAge
       /\ YoungEntriesStay
       /\ \A p \in GcProcs :
            GcStatsStep(p)
                => stats'.allocated_bytes
                       = stats.allocated_bytes - clocal[p].freed_bytes]_vars

\* C18: a call of force_gc starts a pass whatever allocated_bytes is, and returns
\* when that one pass has updated the statistics; every pass, forced or started
\* by the background task, with or without entries removed, adds exactly 1 to
\* gc_runs and sets last_gc_time, and gc_runs changes in no other step.
ForceGcBegins(p) == cpc[p] = "idle" /\ cpc'[p] # "idle" /\ ccall'[p].op = "force_gc"
InPass(pc) == pc \in {"gc_sweep", "gc_stats_lock", "gc_stats"}

C18_EveryPassCounts ==
    [][/\ \A p \in CProcs :
            /\ ForceGcBegins(p) => cpc'[p] = "gc_sweep"
            /\ (InPass(cpc[p]) /\ cpc'[p] # cpc[p])
                  => IF cpc[p] = "gc_sweep" THEN cpc'[p] = "gc_stats_lock"
                     ELSE IF cpc[p] = "gc_stats_lock" THEN cpc'[p] = "gc_stats"
                     ELSE cpc'[p] = "idle" /\ cret'[p] = [tag |-> "unit"]
       /\ \A p \in GcProcs :
            GcStatsStep(p)
                => /\ stats'.gc_runs = stats.gc_runs + 1
                   /\ stats'.last_gc_time = Some(clocal[p].start_time)
                   /\ stats'.last_gc_time # None
       /\ stats'.gc_runs # stats.gc_runs => \E p \in GcProcs : GcStatsStep(p)]_vars

\* With the background task off and nothing ever cached, a forced pass has run.
C18_Witness ==
    /\ ~config.enable_auto_gc
    /\ cache = EmptyMap
    /\ stats.peak_allocated_bytes = 0
    /\ stats.allocated_bytes = 0
    /\ stats.gc_runs = 1
    /\ stats.last_gc_time # None
    /\ \A p \in CProcs : cpc[p] \in {"idle", "absent"}

\* C19: the background task starts a pass at a wake only when auto GC is enabled
\* and allocated_bytes is greater than force_gc_threshold_mb * 1024 * 1024, and
\* whenever it waits with allocated_bytes above that threshold its wake can start
\* a pass (as long as the passes counted and running are fewer than MaxGcRuns);
\* with auto GC disabled the task never runs; a pass it starts removes only
\* entries older than one hour, and one that removes nothing adds 1 to gc_runs
\* and leaves allocated_bytes as it is.
ThresholdBytes == config.force_gc_threshold_mb * 1024 * 1024
WakeStartsPass == cpc[Bg] = "bg_wait" /\ cpc'[Bg] = "gc_sweep"

C19_AutoGcThreshold ==
    [][/\ WakeStartsPass
            => config.enable_auto_gc /\ stats.allocated_bytes > ThresholdBytes
       /\ (/\ cpc[Bg] = "bg_wait"
           /\ stats_lock = "none"
           /\ stats.allocated_bytes > ThresholdBytes
           /\ stats.gc_runs < MaxGcRuns)
              => ENABLED (AutoGcTick /\ WakeStartsPass)
       /\ ~config.enable_auto_gc => cpc[Bg] = "off" /\ cpc'[Bg] = "off"
       /\ SweepStep(Bg)
            => \A k \in DOMAIN cache :
                  Age(k, clocal[Bg].start_time) <= 3600
                      => k \in DOMAIN cache' /\ cache'[k] = cache[k]
       /\ (GcStatsStep(Bg) /\ clocal[Bg].freed_bytes = 0)
            => /\ stats'.gc_runs = stats.gc_runs + 1
               /\ stats'.allocated_bytes = stats.allocated_bytes]_vars

\* A background pass has run over a cache of fresh entries above the threshold:
\* it is counted, and the entries and allocated_bytes are as before.
C19_Witness ==
    /\ config.enable_auto_gc
    /\ cpc[Bg] = "bg_wait"
    /\ stats.gc_runs = 1
    /\ cache # EmptyMap
    /\ stats.allocated_bytes > ThresholdBytes
    /\ stats.allocated_bytes = CacheBytes(cache)
    /\ \A k \in DOMAIN cache : now - cache[k].ts <= 3600

\* C20: remove_cached_data on a present key removes exactly that entry, then
\* sets allocated_bytes to allocated_bytes minus the entry's size, or to 0 when
\* that would be negative, and returns true; on an absent key it returns false
\* with the map and the statistics as they were; no step of it changes
\* peak_allocated_bytes, gc_runs or last_gc_time.
RemoveMapStep(p) == cpc[p] = "rm_cache" /\ cpc'[p] # "rm_cache"
RemoveStatsStep(p) == cpc[p] = "rm_stats" /\ cpc'[p] # "rm_stats"
ReturnsBool(p, b) == cpc'[p] = "idle" /\ cret'[p] = [tag |-> "bool", val |-> b]

C20_RemoveSemantics ==
    [][\A p \in CProcs :
         LET k == ccall[p].key
         IN  /\ (RemoveMapStep(p) /\ k \in DOMAIN cache)
                  => /\ DOMAIN cache' = DOMAIN cache \ {k}
                     /\ \A x \in DOMAIN cache' : cache'[x] = cache[x]
                     /\ clocal'[p].removed = cache[k].data.len
                     /\ cpc'[p] = "rm_stats"
                     /\ stats' = stats
             /\ (RemoveMapStep(p) /\ k \notin DOMAIN cache)
                  => /\ ReturnsBool(p, FALSE)
                     /\ cache' = cache
                     /\ stats' = stats
             /\ RemoveStatsStep(p)
                  => /\ ReturnsBool(p, TRUE)
                     /\ cache' = cache
                     /\ stats'.allocated_bytes =
                            IF stats.allocated_bytes >= clocal[p].removed
                            THEN stats.allocated_bytes - clocal[p].removed
                            ELSE 0
                     /\ stats'.peak_allocated_bytes = stats.peak_allocated_bytes
                     /\ stats'.gc_runs = stats.gc_runs
                     /\ stats'.last_gc_time = stats.last_gc_time]_vars

\* The second caller has removed an entry the first caller had inserted and not
\* yet counted: allocated_bytes, 0 before the subtraction, is 0 after it.
C20_Witness ==
    /\ cpc["c1"] \in {"cd_stats_lock", "cd_stats"}
    /\ ccall["c1"].data.len > 0
    /\ cpc["c2"] = "idle"
    /\ cret["c2"] = [tag |-> "bool", val |-> TRUE]
    /\ cache = EmptyMap
    /\ stats.allocated_bytes = 0
    /\ stats.peak_allocated_bytes = 0

\* C21: get_cached_data returns the payload of the entry under the key, which is
\* the one the last cache_data of that key inserted, or nothing when the key is
\* absent, and changes neither the map nor the statistics; the timestamp of an
\* entry is set by the cache_data that inserts it and by no other step, so a pass
\* that begins more than one hour after that insert removes the entry however
\* often it was read.
GetStep(p) == cpc[p] = "get" /\ cpc'[p] # "get"
InsertStep(p, k) == cpc[p] = "cd_insert" /\ cpc'[p] # "cd_insert" /\ ccall[p].key = k

C21_GetReadsOnly ==
    [][/\ \A p \in CProcs :
            GetStep(p)
                => /\ cache' = cache
                   /\ stats' = stats
                   /\ cpc'[p] = "idle"
                   /\ cret'[p] = IF ccall[p].key \in DOMAIN cache
                                 THEN [tag |-> "some", val |-> cache[ccall[p].key].data]
                                 ELSE [tag |-> "nothing"]
       /\ \A p \in CProcs, k \in Keys :
            InsertStep(p, k)
                => k \in DOMAIN cache' /\ cache'[k] = [data |-> ccall[p].data, ts |-> now]
       /\ \A k \in DOMAIN cache \cap DOMAIN cache' :
            cache'[k] # cache[k] => \E p \in CProcs : InsertStep(p, k)
       /\ \A p \in GcProcs :
            SweepStep(p)
                => \A k \in DOMAIN cache :
                      clocal[p].start_time - cache[k].ts > 3600 => k \notin DOMAIN cache']_vars

\* A get has returned the payload of an entry that is more than one hour old: the
\* entry is still in the map with the timestamp of its insert, and counted.
C21_Witness ==
    /\ cpc["c1"] = "idle"
    /\ cret["c1"].tag = "some"
    /\ \E k \in DOMAIN cache :
          /\ cache[k].data = cret["c1"].val
          /\ cache[k].ts = 0
          /\ now - cache[k].ts > 3600
    /\ stats.allocated_bytes = CacheBytes(cache)
    /\ stats.gc_runs = 0

\* C22: clear_cache empties the map whatever it held, keeps it empty until it
\* returns, and returns with allocated_bytes = 0 whatever it was; no step of it
\* changes peak_allocated_bytes, gc_runs or last_gc_time.
ClearMapStep(p) == cpc[p] = "cl_cache" /\ cpc'[p] # "cl_cache"
ClearStatsStep(p) == cpc[p] = "cl_stats" /\ cpc'[p] # "cl_stats"

C22_ClearResets ==
    [][\A p \in CProcs :
         /\ ClearMapStep(p)
              => /\ cache' = EmptyMap
                 /\ stats' = stats
                 /\ cpc'[p] = "cl_stats"
         /\ ClearStatsStep(p)
              => /\ cache = EmptyMap
                 /\ cache' = EmptyMap
                 /\ cpc'[p] = "idle"
                 /\ cret'[p] = [tag |-> "unit"]
                 /\ stats' = [stats EXCEPT !.allocated_bytes = 0]
         /\ (cpc[p] = "cl_stats" /\ cpc'[p] = "cl_stats") => cache' = EmptyMap]_vars

\* Two entries of one byte were cached and the cache then cleared: the map is
\* empty, allocated_bytes is 0 and the peak is still 2.
C22_Witness ==
    /\ cpc["c1"] = "idle"
    /\ cret["c1"] = [tag |-> "unit"]
    /\ cops = 0
    /\ cache = EmptyMap
    /\ stats.allocated_bytes = 0
    /\ stats.peak_allocated_bytes = 2
    /\ stats.gc_runs = 0

\* C23: while the cell is empty get_memory_manager and get_memory_stats return
\* None and the module-level force_gc returns without a pass and without a
\* change of the manager's state; what an accessor returns on an empty cell
\* differs from everything an accessor returns on a set cell; and a set cell
\* stays set, so that no accessor finds it empty afterwards.
AccessStep(p, pc) == cpc[p] = pc /\ cpc'[p] # pc
AccessReturned(p) ==
    cpc[p] = "idle" /\ cret[p].tag # "none" /\ made.calls[p].op # "none"
UnavailableOnEmptyCell ==
    \A p \in CProcs :
        /\ ((AccessStep(p, "gm_get") \/ AccessStep(p, "gs_get")) /\ ~Initialized)
              => cpc'[p] = "idle" /\ cret'[p] = [tag |-> "nothing"]
        /\ (AccessStep(p, "fg_get") /\ ~Initialized)
              => /\ cpc'[p] = "idle"
                 /\ UNCHANGED <<config, cache, stats, cache_lock, stats_lock, MEMORY_MANAGER>>
SetCellStaysSet ==
    /\ Initialized => MEMORY_MANAGER' = MEMORY_MANAGER
    /\ \A p \in CProcs :
          /\ (AccessStep(p, "gm_get") /\ Initialized) => cret'[p].tag = "some"
          /\ (AccessStep(p, "gs_get") /\ Initialized) => cpc'[p] = "stats_read"
          /\ (AccessStep(p, "fg_get") /\ Initialized) => cpc'[p] = "gc_sweep"
          /\ (AccessStep(p, "stats_read") /\ ccall[p].op = "get_memory_stats")
                => cret'[p].tag = "some"
UnavailableIsDistinct ==
    \A p, q \in CProcs :
        (/\ AccessReturned(p) /\ ~made.calls[p].found
         /\ AccessReturned(q) /\ made.calls[q].found)
            => cret[p] # cret[q]

C23_UnavailableDistinct ==
    [][UnavailableOnEmptyCell /\ SetCellStaysSet /\ UnavailableIsDistinct']_vars

\* C24: however many calls of init_memory_manager are made, one after the other
\* or concurrently, with equal or different configurations: at most one manager
\* is ever constructed and at most one periodic task spawned, exactly one
\* manager once the cell is set; every call returns the manager in the cell;
\* the manager's configuration is the one given to the call that set the cell,
\* and it never changes afterwards.
OneManager ==
    /\ made.managers <= 1
    /\ made.tasks <= 1
    /\ Initialized
         => /\ made.managers = 1
            /\ MEMORY_MANAGER.value = Some(1)
            /\ made.tasks = IF config.enable_auto_gc THEN 1 ELSE 0
    /\ \A p \in CProcs :
          cret[p].tag = "manager" => Initialized /\ cret[p].val = ManagerRef

C24_SingleInstance ==
    [][/\ OneManager
       /\ OneManager'
       /\ made.managers >= 1 => config' = config
       /\ \A p \in CProcs :
            (cpc[p] = "init_set" /\ cpc'[p] # "init_set")
                => /\ Initialized'
                   /\ config' = UnwrapOrDefault(ccall[p].config)
                   /\ cret'[p] = [tag |-> "manager", val |-> [manager |-> 1]]]_vars

\* One caller has set the cell and returned; the other, which found the cell
\* empty and asked for a different configuration, is waiting for the permit.
C24_Witness ==
    /\ cpc["c1"] = "idle"
    /\ cret["c1"] = [tag |-> "manager", val |-> [manager |-> 1]]
    /\ cpc["c2"] = "init_acquire"
    /\ UnwrapOrDefault(ccall["c2"].config) # config
    /\ Initialized
    /\ made.managers = 1

\* C25: for every data and every key, xor_decrypt(xor_encrypt(data, key), key)
\* is data again, and xor_encrypt(data, key) is as long as data.
C25_XorRoundTrip ==
    /\ xor_io.pc \in {"decrypt", "done"} => Len(xor_io.encrypted) = Len(xor_io.data)
    /\ xor_io.pc = "done" => xor_io.decrypted = xor_io.data

\* C26: no operation waits for the map lock while it holds the statistics lock,
\* and an operation that holds both took the map lock first; whenever a call or
\* a pass is in progress one of them can take a step; and every call that has
\* begun returns, every pass that has begun ends.
MapLockWaiters == {"cd_insert", "get", "rm_cache", "cl_cache", "gc_sweep"}
StatsLockWaiters == {"cd_stats_lock", "rm_stats", "cl_stats", "gc_stats_lock", "stats_read"}
Busy(p) == cpc[p] \in MapLockWaiters \cup StatsLockWaiters \cup {"cd_stats", "gc_stats"}
LockOrder ==
    \A p \in CProcs \cup {Bg} :
        /\ stats_lock = p => cpc[p] \notin MapLockWaiters
        /\ (stats_lock = p /\ cache_lock # p) => cpc[p] \in {"cd_stats", "gc_stats"}
        /\ cache_lock = p => cpc[p] \in {"rm_stats", "cl_stats"}
MapLockFirst ==
    \A p \in CProcs \cup {Bg} :
        (stats_lock # p /\ stats_lock' = p) => cache_lock' # p /\ cpc[p] \notin {"rm_cache", "cl_cache"}
NoDeadlock ==
    (\E p \in CProcs \cup {Bg} : Busy(p))
        => ENABLED (\E p \in CProcs \cup {Bg} : StepsOf(p))

C26_LockOrderNoDeadlock ==
    /\ [](LockOrder /\ NoDeadlock)
    /\ [][MapLockFirst]_vars
    /\ \A p \in CProcs \cup {Bg} : Busy(p) ~> ~Busy(p)

\* A clear holds the map lock and waits for the statistics lock, which the other
\* caller's put holds.
C26_Witness ==
    /\ cpc["c1"] = "cd_stats"
    /\ stats_lock = "c1"
    /\ cpc["c2"] = "cl_stats"
    /\ cache_lock = "c2"

\* C27: in no reachable state does a get_cached_data wait for the map lock while
\* the holder of the map lock waits for the statistics lock and a third party
\* holds the statistics lock for an update of its own.
GetWaitsBehindStats ==
    \E g \in CProcs, h \in CProcs, s \in CProcs \cup {Bg} :
        /\ g # h /\ s # g /\ s # h
        /\ cpc[g] = "get"
        /\ cache_lock = h
        /\ cpc[h] \in {"rm_stats", "cl_stats"}
        /\ stats_lock = s
        /\ cpc[s] \in {"cd_stats", "gc_stats"}

C27_GetNeverWaitsOnStats == ~GetWaitsBehindStats

\* C28: peak_allocated_bytes is at least allocated_bytes in every reachable
\* state; no step decreases it; and the statistics step of a cache_data leaves
\* it equal to the larger of its previous value and the new allocated_bytes.
Max(a, b) == IF a >= b THEN a ELSE b
PutStatsStep(p) == cpc[p] = "cd_stats" /\ cpc'[p] # "cd_stats"

C28_PeakIsHighWater ==
    /\ [](stats.peak_allocated_bytes >= stats.allocated_bytes)
    /\ [][/\ stats'.peak_allocated_bytes >= stats.peak_allocated_bytes
          /\ \A p \in CProcs :
               PutStatsStep(p)
                   => /\ stats'.allocated_bytes = stats.allocated_bytes + ccall[p].data.len
                      /\ stats'.peak_allocated_bytes
                            = Max(stats.peak_allocated_bytes, stats'.allocated_bytes)
          /\ (\A p \in CProcs : ~PutStatsStep(p))
                   => stats'.peak_allocated_bytes = stats.peak_allocated_bytes]_vars

\* A put of one byte after the large entry was removed: allocated_bytes is 1 and
\* the peak is still the size of the large entry.
C28_Witness ==
    /\ cpc["c1"] = "idle"
    /\ cret["c1"] = [tag |-> "unit"]
    /\ cops = 0
    /\ stats.allocated_bytes = 1
    /\ stats.peak_allocated_bytes = 300 * MiB
    /\ stats.gc_runs = 0
    /\ \E k \in DOMAIN cache : DOMAIN cache = {k} /\ cache[k].data.len = 1

\* C29: when no put has replaced an entry, then once every call has returned and
\* no pass is running allocated_bytes is the sum of the sizes of the entries in
\* the map, whatever the interleaving of the puts, removals and passes was.
AllReturned ==
    /\ \A p \in CProcs : cpc[p] \in {"idle", "absent"}
    /\ cpc[Bg] \in {"off", "bg_wait"}

C29_QuiescentAccounting == AllReturned => stats.allocated_bytes = CacheBytes(cache)

\* C30: a row leaves user_photos only in the last step of a delete_photo, and
\* the blob its photo_url names has left the photos collection before that step;
\* while a delete_photo is between its two deletions the blob is gone and the
\* row still there; a delete_photo that returns an error has removed no row, so
\* what it can leave behind is a row whose blob is gone, never a blob whose row
\* was deleted.
DeleteRowStep(p) == ppc[p] = "del_pg" /\ ppc'[p] # "del_pg"
DeleteStep(p) == ppc[p] \in {"del_lookup", "del_mongo", "del_pg"} /\ ppc'[p] # ppc[p]
BlobBeforeRow ==
    \A r \in {x \in user_photos : \A y \in user_photos' : y.id # x.id} :
        /\ ~BlobThere(r.photo_url)
        /\ \E p \in PProcs : DeleteRowStep(p) /\ pcall[p].photo_id = r.id
BetweenDeletions ==
    \A p \in PProcs :
        ppc[p] = "del_pg" => ParseStr(plocal[p].mongo_id)[1] \notin DOMAIN photos
FailedDeleteKeepsRow ==
    \A p \in PProcs :
        /\ (DeleteStep(p) /\ pret'[p].tag = "err") => user_photos' = user_photos
        /\ DeleteStep(p)
              => \A o \in DOMAIN photos \ DOMAIN photos' :
                    \E r \in user_photos' :
                        /\ r.id = pcall[p].photo_id
                        /\ ParseStr(LocatorBlobId(r.photo_url)) = Some(o)

C30_BlobGoesFirst ==
    /\ []BetweenDeletions
    /\ [][BlobBeforeRow /\ FailedDeleteKeepsRow]_vars

\* A delete_photo has removed the blob and then failed to delete the row: the
\* row is still there and names a blob that is gone.
C30_Witness ==
    \E p \in PProcs :
        /\ ppc[p] = "idle"
        /\ pret[p] = Err(<<"Failed to delete photo metadata from PostgreSQL", "diesel error">>)
        /\ \E r \in user_photos : ~BlobThere(r.photo_url)

====
